---------------------------- MODULE Spec2Model ----------------------------
(***************************************************************************)
(* Model of the Mizan analysis pipeline (backend/app): the envelope        *)
(* protocol (response_utils.py), the valuation gate (gate2_valuation.py),  *)
(* the position-sizing gate (gate5_position_sizing.py), the verdict        *)
(* aggregator (gate6_final_verdict.py), the classifier gates 1, 3 and 4    *)
(* and the orchestrator (orchestrator.py).                                 *)
(*                                                                         *)
(* Numbers.  Python floats are modelled as exact rationals <<n, d>> with   *)
(* d > 0 in lowest terms; None is the empty tuple <<>>.  round_float is    *)
(* round-half-even to the given number of decimal digits, computed on the  *)
(* exact rational.  An optional string is <<>> or <<s>>.                   *)
(***************************************************************************)
EXTENDS Integers, Sequences, FiniteSets, TLC

VARIABLES
    VALUATION_MULTIPLE,  \* gate2_valuation.py:39, read from the environment at import
    REQUIRED_MARGIN,     \* gate2_valuation.py:38, read from the environment at import
    GOOGLE_API_KEY,      \* os.getenv("GOOGLE_API_KEY") is set (TRUE) or not (FALSE)
    call,                \* the last direct call of a gate function: [fn, args, result]
    pc,                  \* position of run_pipeline
    outputs,             \* run_pipeline's outputs dict (key -> envelope)
    gate_results,        \* run_pipeline's gate_results list
    pipeline_notes,      \* run_pipeline's pipeline_notes list
    gate1_data,          \* run_pipeline's gate1_data (None or gate 1's data)
    invoked,             \* the stages called so far in this run, in call order
    handed,              \* the business context handed to gate 4 and to gate 6
    response             \* what run_pipeline returned (None while it runs)

vars == <<VALUATION_MULTIPLE, REQUIRED_MARGIN, GOOGLE_API_KEY, call, pc, outputs,
          gate_results, pipeline_notes, gate1_data, invoked, handed, response>>

config_vars == <<VALUATION_MULTIPLE, REQUIRED_MARGIN, GOOGLE_API_KEY>>
run_vars == <<pc, outputs, gate_results, pipeline_notes, gate1_data, invoked,
              handed, response>>

-----------------------------------------------------------------------------
(* Python values *)

None == <<>>

IsNone(v) == v = None

Str(s) == <<s>>

EmptyDict == [k \in {} |-> None]

\* dict.get(key, default)
Get(d, key, default) == IF key \in DOMAIN d THEN d[key] ELSE default

-----------------------------------------------------------------------------
(* Exact rational arithmetic standing for float arithmetic *)

Abs(n) == IF n < 0 THEN -n ELSE n

RECURSIVE GCD(_, _)
GCD(a, b) == IF b = 0 THEN a ELSE GCD(b, a % b)

Rat(n, d) ==
    LET g == GCD(Abs(n), Abs(d))
        s == IF d < 0 THEN -1 ELSE 1
    IN  <<(s * n) \div g, (s * d) \div g>>

Int2Rat(n) == <<n, 1>>

Zero == Int2Rat(0)

RatAdd(a, b) == Rat(a[1] * b[2] + b[1] * a[2], a[2] * b[2])

RatSub(a, b) == Rat(a[1] * b[2] - b[1] * a[2], a[2] * b[2])

RatMul(a, b) == Rat(a[1] * b[1], a[2] * b[2])

RatDiv(a, b) == Rat(a[1] * b[2], a[2] * b[1])

RatLE(a, b) == a[1] * b[2] <= b[1] * a[2]

RatLT(a, b) == a[1] * b[2] < b[1] * a[2]

RatGE(a, b) == RatLE(b, a)

RatGT(a, b) == RatLT(b, a)

RatMin(a, b) == IF RatLE(a, b) THEN a ELSE b

RatMax(a, b) == IF RatGE(a, b) THEN a ELSE b

RECURSIVE Pow10(_)
Pow10(k) == IF k = 0 THEN 1 ELSE 10 * Pow10(k - 1)


-----------------------------------------------------------------------------
(* response_utils.py *)

\* round(float(value), digits): half-even on the exact value
round_float(value, digits) ==
    LET s == Pow10(digits)
        num == value[1] * s
        q == num \div value[2]
        twice == 2 * (num % value[2])
        k == IF twice < value[2] THEN q
             ELSE IF twice > value[2] THEN q + 1
             ELSE IF q % 2 = 0 THEN q ELSE q + 1
    IN  Rat(k, s)

Clamp0to100(c) == IF c < 0 THEN 0 ELSE IF c > 100 THEN 100 ELSE c

build_diagnostics(inputs_used, missing_inputs, binding_constraint) ==
    [inputs_used |-> inputs_used,
     missing_inputs |-> missing_inputs,
     binding_constraint |-> binding_constraint]

ok_response(gate, data, inputs_used, confidence, one_liner, binding_constraint, missing_inputs) ==
    [status |-> "OK",
     gate |-> gate,
     data |-> data,
     confidence |-> Clamp0to100(confidence),
     one_liner |-> IF one_liner # "" THEN one_liner ELSE Get(data, "one_liner", ""),
     diagnostics |-> build_diagnostics(inputs_used, missing_inputs, binding_constraint)]

partial_response(gate, data, inputs_used, missing_inputs, confidence, one_liner, binding_constraint) ==
    [status |-> "PARTIAL",
     gate |-> gate,
     data |-> data,
     confidence |-> Clamp0to100(confidence),
     one_liner |-> one_liner,
     diagnostics |-> build_diagnostics(inputs_used, missing_inputs, binding_constraint)]

error_response(gate, code, message, inputs_used, missing_inputs, binding_constraint) ==
    [status |-> "ERROR",
     gate |-> gate,
     data |-> EmptyDict,
     confidence |-> 0,
     one_liner |-> message,
     error |-> [code |-> code, message |-> message],
     diagnostics |-> build_diagnostics(inputs_used, missing_inputs, binding_constraint)]

\* variant: a skipped stage reports a confidence of its own
skipped_response_half_confidence(gate, data, inputs_used, reason, missing_inputs, binding_constraint) ==
    [status |-> "SKIPPED",
     gate |-> gate,
     data |-> data,
     confidence |-> 50,
     one_liner |-> reason,
     diagnostics |-> build_diagnostics(inputs_used, missing_inputs, binding_constraint)]

skipped_response(gate, data, inputs_used, reason, missing_inputs, binding_constraint) ==
    [status |-> "SKIPPED",
     gate |-> gate,
     data |-> data,
     confidence |-> 0,
     one_liner |-> reason,
     diagnostics |-> build_diagnostics(inputs_used, missing_inputs, binding_constraint)]

\* variant: a falsy test ("if not value") in place of "is None"
RECURSIVE missing_required_fields_falsy(_)
missing_required_fields_falsy(values) ==
    IF values = <<>> THEN <<>>
    ELSE (IF IsNone(Head(values)[2]) \/ Head(values)[2] = Zero
          THEN <<Head(values)[1]>> ELSE <<>>)
         \o missing_required_fields_falsy(Tail(values))

\* values is the dict as its items in insertion order: <<key, value>> pairs
RECURSIVE missing_required_fields(_)
missing_required_fields(values) ==
    IF values = <<>> THEN <<>>
    ELSE (IF IsNone(Head(values)[2]) THEN <<Head(values)[1]>> ELSE <<>>)
         \o missing_required_fields(Tail(values))

-----------------------------------------------------------------------------
(* gates/gate2_valuation.py *)

GATE2_NAME == "Gate 2 - Valuation"

\* variant: the DEEP_VALUE boundary exclusive
_valuation_band_exclusive(margin_of_safety) ==
    IF RatGT(margin_of_safety, Rat(50, 100)) THEN "DEEP_VALUE"
    ELSE IF RatGE(margin_of_safety, Zero) THEN "FAIR"
    ELSE "EXPENSIVE"

_valuation_band(margin_of_safety) ==
    IF RatGE(margin_of_safety, Rat(50, 100)) THEN "DEEP_VALUE"
    ELSE IF RatGE(margin_of_safety, Zero) THEN "FAIR"
    ELSE "EXPENSIVE"

\* variant: net_debt < 0 in place of net_debt <= 0
valuation_policy_strict(net_debt) ==
    IF RatLT(net_debt, Zero)
    THEN <<RatAdd(VALUATION_MULTIPLE, Int2Rat(2)),
           RatMax(Rat(20, 100), RatSub(REQUIRED_MARGIN, Rat(5, 100)))>>
    ELSE <<VALUATION_MULTIPLE, REQUIRED_MARGIN>>

\* returns <<multiple, required_margin>>
valuation_policy(net_debt) ==
    IF RatLE(net_debt, Zero)
    THEN <<RatAdd(VALUATION_MULTIPLE, Int2Rat(2)),
           RatMax(Rat(20, 100), RatSub(REQUIRED_MARGIN, Rat(5, 100)))>>
    ELSE <<VALUATION_MULTIPLE, REQUIRED_MARGIN>>

RECURSIVE NonEmptyStrings(_)
NonEmptyStrings(flags) ==
    IF flags = <<>> THEN <<>>
    ELSE (IF Head(flags) # "" THEN <<Head(flags)>> ELSE <<>>)
         \o NonEmptyStrings(Tail(flags))

\* llm is what the language model does when asked: [kind |-> "raise"] or
\* [kind |-> "reply", payload |-> the parsed JSON object]
_run_valuation_supervisor(data, llm) ==
    IF ~GOOGLE_API_KEY
    THEN [supervisor_commentary |-> "Supervisor unavailable (no API key)",
          pathological_flags |-> <<>>]
    ELSE IF llm.kind = "raise"
    THEN [supervisor_commentary |-> "Supervisor error", pathological_flags |-> <<>>]
    ELSE [supervisor_commentary |-> Get(llm.payload, "supervisor_commentary", ""),
          pathological_flags |->
              NonEmptyStrings(Get(llm.payload, "pathological_flags", <<>>))]

\* variant: the discount taken relative to the market price
margin_of_safety_of_market(intrinsic_price, market_price) ==
    RatDiv(RatSub(intrinsic_price, market_price), market_price)

\* line 227
margin_of_safety_of(intrinsic_price, market_price) ==
    RatDiv(RatSub(intrinsic_price, market_price), intrinsic_price)

\* variant: net cash is credited to the intrinsic value
effective_net_debt_of_raw(net_debt) == net_debt

\* line 213
effective_net_debt_of(net_debt) == RatMax(Zero, net_debt)

\* line 228
passes_of(margin_of_safety, required_margin_used) ==
    RatGE(margin_of_safety, required_margin_used)

VALUATION_INPUTS_USED ==
    <<"market_price", "net_income", "free_cashflow", "total_debt", "cash",
      "shares_outstanding", "REQUIRED_MARGIN_OF_SAFETY", "VALUATION_MULTIPLE",
      "valuation_policy(net_debt)">>

\* The deterministic core of calculate_valuation, lines 200-279: the data dict
\* before the supervisor is attached (the units and display sub-dicts, which
\* only format these numbers, are left out), with the gate confidence.
valuation_core(market_price, net_income, free_cashflow, total_debt, cash, shares_outstanding) ==
    LET owner_earnings ==
            IF IsNone(free_cashflow) THEN net_income
            ELSE RatMin(net_income, free_cashflow)
        owner_earnings_source ==
            IF IsNone(free_cashflow) THEN "NET_INCOME"
            ELSE IF RatLE(net_income, free_cashflow) THEN "NET_INCOME"
            ELSE "FREE_CASH_FLOW"
        net_debt == RatSub(total_debt, cash)
        policy == valuation_policy(net_debt)
        multiple_used == policy[1]
        required_margin_used == policy[2]
        effective_net_debt == effective_net_debt_of(net_debt)
        intrinsic_equity == RatSub(RatMul(owner_earnings, multiple_used), effective_net_debt)
        intrinsic_price == RatDiv(intrinsic_equity, shares_outstanding)
        impaired == RatLE(intrinsic_price, Zero)
        margin_of_safety ==
            IF impaired THEN None
            ELSE margin_of_safety_of(intrinsic_price, market_price)
        passes == IF impaired THEN FALSE
                  ELSE passes_of(margin_of_safety, required_margin_used)
        valuation_band == IF impaired THEN "IMPAIRED" ELSE _valuation_band(margin_of_safety)
        one_liner ==
            IF impaired THEN "FAIL - Intrinsic value is non-positive (IMPAIRED)"
            ELSE IF passes THEN "PASS - MOS meets required margin"
            ELSE "FAIL - MOS below required margin"
    IN  [gate_confidence |-> IF impaired THEN 90 ELSE 85,
         data |->
           [owner_earnings |-> round_float(owner_earnings, 2),
            owner_earnings_source_used |-> owner_earnings_source,
            net_debt |-> round_float(net_debt, 2),
            effective_net_debt |-> round_float(effective_net_debt, 2),
            intrinsic_equity |-> round_float(intrinsic_equity, 2),
            intrinsic_price |-> round_float(intrinsic_price, 2),
            market_price |-> round_float(market_price, 2),
            margin_of_safety |->
                IF IsNone(margin_of_safety) THEN None
                ELSE round_float(margin_of_safety, 4),
            required_margin |-> round_float(required_margin_used, 4),
            valuation_anchor |->
                [multiple_used |-> round_float(multiple_used, 4),
                 required_margin_used |-> round_float(required_margin_used, 4),
                 policy |-> "NET_DEBT_ADJUSTED"],
            valuation_band |-> valuation_band,
            pass |-> passes,
            passes |-> passes,
            one_liner |-> one_liner,
            owner_earnings_source |-> owner_earnings_source]]

\* variant: data.update(supervisor), the supervisor's keys written into the data
attach_supervisor_merged(data, supervisor) == supervisor @@ data

\* line 283: data["supervisor"] = supervisor
attach_supervisor(data, supervisor) == [supervisor |-> supervisor] @@ data

calculate_valuation(market_price, net_income, free_cashflow, total_debt, cash, shares_outstanding, llm) ==
    LET missing == missing_required_fields(
                       << <<"market_price", market_price>>,
                          <<"net_income", net_income>>,
                          <<"total_debt", total_debt>>,
                          <<"cash", cash>>,
                          <<"shares_outstanding", shares_outstanding>> >>)
    IN  IF missing # <<>>
        THEN error_response(GATE2_NAME, "VALUATION_MISSING_INPUTS",
                            "Missing required inputs", VALUATION_INPUTS_USED,
                            missing, Str("DATA_AVAILABILITY"))
        ELSE IF RatLE(shares_outstanding, Zero)
        THEN error_response(GATE2_NAME, "VALUATION_INVALID_SHARES",
                            "shares_outstanding must be > 0", VALUATION_INPUTS_USED,
                            <<>>, Str("DATA_AVAILABILITY"))
        ELSE LET core == valuation_core(market_price, net_income, free_cashflow,
                                        total_debt, cash, shares_outstanding)
                 data == attach_supervisor(core.data,
                                           _run_valuation_supervisor(core.data, llm))
             IN  ok_response(GATE2_NAME, data, VALUATION_INPUTS_USED,
                             core.gate_confidence, data.one_liner,
                             IF data.valuation_band \in {"IMPAIRED", "EXPENSIVE"}
                             THEN Str("VALUATION") ELSE None,
                             <<>>)

-----------------------------------------------------------------------------
(* gates/gate5_position_sizing.py *)

GATE5_NAME == "Gate 5 - Position Sizing"

VALID_CREDIT_STRESS == {"LOW", "MEDIUM", "HIGH"}

\* str.upper() on the strings that occur
Upper(s) ==
    CASE s = "low" -> "LOW"
      [] s = "medium" -> "MEDIUM"
      [] s = "high" -> "HIGH"
      [] s = "small" -> "SMALL"
      [] s = "headwind" -> "HEADWIND"
      [] s = "junk" -> "JUNK"
      [] s = "skipped" -> "SKIPPED"
      [] OTHER -> s

\* variant: the boundaries exclusive
_volatility_factor_exclusive(volatility) ==
    IF RatLT(volatility, Rat(20, 100)) THEN Rat(100, 100)
    ELSE IF RatLT(volatility, Rat(35, 100)) THEN Rat(85, 100)
    ELSE IF RatLT(volatility, Rat(50, 100)) THEN Rat(70, 100)
    ELSE Rat(55, 100)

_volatility_factor(volatility) ==
    IF RatLE(volatility, Rat(20, 100)) THEN Rat(100, 100)
    ELSE IF RatLE(volatility, Rat(35, 100)) THEN Rat(85, 100)
    ELSE IF RatLE(volatility, Rat(50, 100)) THEN Rat(70, 100)
    ELSE Rat(55, 100)

_drawdown_factor(max_drawdown) ==
    IF RatLE(max_drawdown, Rat(15, 100)) THEN Rat(100, 100)
    ELSE IF RatLE(max_drawdown, Rat(30, 100)) THEN Rat(85, 100)
    ELSE IF RatLE(max_drawdown, Rat(45, 100)) THEN Rat(70, 100)
    ELSE Rat(55, 100)

_correlation_factor(correlation_index) ==
    IF RatLE(correlation_index, Rat(30, 100)) THEN Rat(100, 100)
    ELSE IF RatLE(correlation_index, Rat(60, 100)) THEN Rat(85, 100)
    ELSE IF RatLE(correlation_index, Rat(80, 100)) THEN Rat(70, 100)
    ELSE Rat(55, 100)

_macro_factor(interest_rate, credit_stress) ==
    LET rate_factor ==
            IF RatLE(interest_rate, Rat(3, 100)) THEN Rat(100, 100)
            ELSE IF RatLE(interest_rate, Rat(5, 100)) THEN Rat(90, 100)
            ELSE IF RatLE(interest_rate, Rat(7, 100)) THEN Rat(80, 100)
            ELSE Rat(70, 100)
        credit_factor ==
            CASE credit_stress = "LOW" -> Rat(100, 100)
              [] credit_stress = "MEDIUM" -> Rat(85, 100)
              [] credit_stress = "HIGH" -> Rat(70, 100)
    IN  RatMin(rate_factor, credit_factor)

FACTOR_PRECEDENCE == <<"VOLATILITY", "DRAWDOWN", "CORRELATION", "MACRO">>

RECURSIVE MinOfSeq(_)
MinOfSeq(values) ==
    IF Len(values) = 1 THEN Head(values)
    ELSE RatMin(Head(values), MinOfSeq(Tail(values)))

RECURSIVE FirstKeyWith(_, _, _)
FirstKeyWith(keys, factors, value) ==
    IF keys = <<>> THEN "MACRO"
    ELSE IF factors[Head(keys)] = value THEN Head(keys)
    ELSE FirstKeyWith(Tail(keys), factors, value)

\* variant: the precedence list walked from its end
_binding_constraint_last(factors) ==
    LET min_factor == MinOfSeq([i \in 1 .. 4 |-> factors[FACTOR_PRECEDENCE[i]]])
    IN  FirstKeyWith([i \in 1 .. 4 |-> FACTOR_PRECEDENCE[5 - i]], factors, min_factor)

_binding_constraint(factors) ==
    LET min_factor == MinOfSeq([i \in 1 .. 4 |-> factors[FACTOR_PRECEDENCE[i]]])
    IN  FirstKeyWith(FACTOR_PRECEDENCE, factors, min_factor)

_mechanical_explanation(binding_constraint) ==
    CASE binding_constraint = "VOLATILITY" -> "Volatility band set the lowest sizing factor"
      [] binding_constraint = "DRAWDOWN" -> "Drawdown band set the lowest sizing factor"
      [] binding_constraint = "CORRELATION" -> "Correlation band set the lowest sizing factor"
      [] binding_constraint = "MACRO" -> "Macro band set the lowest sizing factor"

\* None, or [narrative, flag]
_run_sizing_agent(position_size, binding_constraint, factors, llm) ==
    IF ~GOOGLE_API_KEY THEN None
    ELSE IF llm.kind = "raise" THEN None
    ELSE LET narrative == Get(llm.payload, "narrative", "")
             raw_flag == Upper(Get(llm.payload, "flag", "NORMAL"))
             flag == IF raw_flag \in {"NORMAL", "SMALL", "LARGE"} THEN raw_flag
                     ELSE "NORMAL"
         IN  IF narrative # "" THEN [narrative |-> narrative, flag |-> flag]
             ELSE None

SIZING_INPUTS_USED ==
    <<"volatility", "max_drawdown", "interest_rate", "credit_stress",
      "correlation_index">>

sizing_skipped(reason, missing_inputs, binding_constraint) ==
    skipped_response(GATE5_NAME,
                     [status |-> "SKIPPED",
                      maximum_position_size |-> None,
                      confidence |-> 0,
                      reason |-> reason],
                     SIZING_INPUTS_USED, reason, missing_inputs, binding_constraint)

\* variant: >= 1.0 in place of > 1.0
interest_rate_not_decimal_inclusive(interest_rate) == RatGE(interest_rate, Int2Rat(1))

\* line 229: the rate must be a decimal fraction, not a percentage
interest_rate_not_decimal(interest_rate) == RatGT(interest_rate, Int2Rat(1))

\* line 254
clamp_position_size(position_size) ==
    RatMax(Int2Rat(1), RatMin(position_size, Int2Rat(10)))

\* the factors other than 1.0, in the order of the product (a float product
\* with 1.0 is exact)
RECURSIVE NonUnitFactors(_)
NonUnitFactors(values) ==
    IF values = <<>> THEN <<>>
    ELSE (IF Head(values) # Rat(100, 100) THEN <<Head(values)>> ELSE <<>>)
         \o NonUnitFactors(Tail(values))

\* Lines 250-252 multiply doubles in the order VOLATILITY, DRAWDOWN,
\* CORRELATION, MACRO.  Where the exact product is halfway between two
\* 1-decimal numbers (3.85, 4.95, 5.95, 7.65) the double is just above it for
\* these sequences of factors, and just below it for the same factors in the
\* other order.
FLOAT_PRODUCT_ABOVE_HALFWAY ==
    { <<Rat(85, 100), Rat(90, 100)>>, <<Rat(55, 100), Rat(90, 100)>>,
      <<Rat(70, 100), Rat(85, 100)>>, <<Rat(70, 100), Rat(55, 100)>> }

\* variant: the size reported as a whole number
round_position_size_whole(position_size, factor_values) == round_float(position_size, 0)

\* line 274: round_float(position_size, 1) of the double
round_position_size(position_size, factor_values) ==
    LET tenths == RatMul(position_size, Int2Rat(10))
        below == tenths[1] \div tenths[2]
    IN  IF tenths[2] # 2 THEN round_float(position_size, 1)
        ELSE IF NonUnitFactors(factor_values) \in FLOAT_PRODUCT_ABOVE_HALFWAY
        THEN Rat(below + 1, 10)
        ELSE Rat(below, 10)

\* credit_stress is None or Str(s); the other inputs are None or numbers.
\* The units, display and *_components sub-dicts, which repeat these numbers,
\* are left out of data.
calculate_position_size(volatility, max_drawdown, interest_rate, credit_stress, correlation_index, upstream_reject, llm) ==
    IF upstream_reject
    THEN sizing_skipped("Valuation gate failed - position sizing not applicable.",
                        <<>>, Str("NOT_APPLICABLE"))
    ELSE
    LET missing == missing_required_fields(
                       << <<"volatility", volatility>>,
                          <<"max_drawdown", max_drawdown>>,
                          <<"interest_rate", interest_rate>>,
                          <<"credit_stress", credit_stress>>,
                          <<"correlation_index", correlation_index>> >>)
    IN  IF missing # <<>>
        THEN sizing_skipped("Position sizing skipped - missing required inputs",
                            missing, Str("DATA_AVAILABILITY"))
        ELSE
        LET base_size == Int2Rat(10)
            normalized_credit_stress == Upper(credit_stress[1])
        IN  IF normalized_credit_stress \notin VALID_CREDIT_STRESS
            THEN sizing_skipped("Position sizing skipped - invalid credit_stress",
                                <<>>, Str("DATA_AVAILABILITY"))
            ELSE IF interest_rate_not_decimal(interest_rate)
            THEN sizing_skipped("Position sizing skipped - interest_rate must be decimal",
                                <<>>, Str("DATA_AVAILABILITY"))
            ELSE
            LET factors ==
                    [VOLATILITY |-> _volatility_factor(volatility),
                     DRAWDOWN |-> _drawdown_factor(max_drawdown),
                     CORRELATION |-> _correlation_factor(correlation_index),
                     MACRO |-> _macro_factor(interest_rate, normalized_credit_stress)]
                product ==
                    RatMul(RatMul(RatMul(RatMul(base_size, factors.VOLATILITY),
                                         factors.DRAWDOWN),
                                  factors.CORRELATION),
                           factors.MACRO)
                position_size == clamp_position_size(product)
                binding_constraint == _binding_constraint(factors)
                agent_output == _run_sizing_agent(position_size, binding_constraint,
                                                  factors, llm)
                data == [maximum_position_size |->
                             round_position_size(position_size,
                                 [i \in 1 .. 4 |-> factors[FACTOR_PRECEDENCE[i]]]),
                         binding_constraint |-> binding_constraint,
                         explanation |-> _mechanical_explanation(binding_constraint),
                         volatility |-> round_float(volatility, 6),
                         max_drawdown |-> round_float(max_drawdown, 6),
                         interest_rate |-> round_float(interest_rate, 6),
                         credit_stress |-> normalized_credit_stress,
                         correlation_index |-> round_float(correlation_index, 6),
                         factors |-> factors]
            IN  ok_response(GATE5_NAME,
                            IF IsNone(agent_output) THEN data
                            ELSE data @@ [agent_overlay |-> agent_output],
                            SIZING_INPUTS_USED, 75, "NAV bound by constraint",
                            None, <<>>)

-----------------------------------------------------------------------------
(* gates/gate6_final_verdict.py *)

GATE6_NAME == "Gate 6 - Final Verdict"

_NON_BLOCKING_CLASSIFICATIONS == {"NO_SIGNAL", "NO_DATA", "NO_RELEVANT_DATA_FOUND"}

\* dict.get(key) of a value that is a string or a boolean when present:
\* None, or the value in a 1-tuple
Opt(d, key) == IF key \in DOMAIN d THEN <<d[key]>> ELSE None

\* a full envelope carries a "data" dict; anything else is a raw data payload
_extract_gate_parts(payload) ==
    IF "data" \in DOMAIN payload
    THEN <<payload.data, Get(payload, "diagnostics", EmptyDict), Get(payload, "status", "")>>
    ELSE <<payload, EmptyDict, "OK">>

\* variant: a TAILWIND adds what a HEADWIND subtracts
_deterministic_confidence_tailwind_bonus(margin_of_safety, impairment_risk, market_structure, key_data_missing) ==
    LET c1 == 50 + (IF ~IsNone(margin_of_safety) /\ RatLT(margin_of_safety, Int2Rat(-1))
                    THEN 20 ELSE 0)
        c2 == c1 + (IF impairment_risk = "LOW" THEN 10 ELSE 0)
        c3 == c2 - (IF market_structure = "HEADWIND" THEN 10 ELSE 0)
                 + (IF market_structure = "TAILWIND" THEN 10 ELSE 0)
        c4 == c3 - (IF key_data_missing THEN 10 ELSE 0)
    IN  Clamp0to100(c4)

\* variant: a LOW impairment risk adds 30
_deterministic_confidence_low_bonus_30(margin_of_safety, impairment_risk, market_structure, key_data_missing) ==
    LET c1 == 50 + (IF ~IsNone(margin_of_safety) /\ RatLT(margin_of_safety, Int2Rat(-1))
                    THEN 20 ELSE 0)
        c2 == c1 + (IF impairment_risk = "LOW" THEN 30 ELSE 0)
        c3 == c2 - (IF market_structure = "HEADWIND" THEN 10 ELSE 0)
        c4 == c3 - (IF key_data_missing THEN 10 ELSE 0)
    IN  Clamp0to100(c4)

_deterministic_confidence(margin_of_safety, impairment_risk, market_structure, key_data_missing) ==
    LET c1 == 50 + (IF ~IsNone(margin_of_safety) /\ RatLT(margin_of_safety, Int2Rat(-1))
                    THEN 20 ELSE 0)
        c2 == c1 + (IF impairment_risk = "LOW" THEN 10 ELSE 0)
        c3 == c2 - (IF market_structure = "HEADWIND" THEN 10 ELSE 0)
        c4 == c3 - (IF key_data_missing THEN 10 ELSE 0)
    IN  Clamp0to100(c4)

INTEREST_NOT_REPORTED ==
    "Interest expense not explicitly reported in SEC filings for this period."

\* The five sentences of the summary, each named by the branch that wrote it;
\* a sentence that embeds a value carries the value.
_build_executive_summary(verdict, business_summary, valuation_pass, valuation_band, margin_of_safety, impairment_risk, impairment_reason, market_classification) ==
    LET business_line ==
            IF ~IsNone(business_summary) /\ business_summary # Str("")
            THEN <<"Business context indicates", business_summary[1]>>
            ELSE <<"Business context is limited in this run">>
        valuation_line ==
            IF ~valuation_pass
            THEN IF valuation_band = "IMPAIRED"
                 THEN "Valuation fails: intrinsic value is non-positive"
                 ELSE IF ~IsNone(margin_of_safety) /\ RatLT(margin_of_safety, Int2Rat(-1))
                 THEN "Valuation fails: deeply negative margin of safety"
                 ELSE "Valuation fails: margin of safety below the required threshold"
            ELSE "Valuation passes the required margin-of-safety discipline"
        impairment_line ==
            IF impairment_reason = INTEREST_NOT_REPORTED
            THEN <<"Impairment context is UNDETERMINED: interest expense not reported">>
            ELSE IF impairment_risk = "UNDETERMINED"
            THEN <<"Impairment risk is UNDETERMINED: prevents an INVEST outcome">>
            ELSE <<"Impairment context is classified as", impairment_risk>>
        market_line ==
            IF market_classification \in _NON_BLOCKING_CLASSIFICATIONS
            THEN <<"Market-structure signals are not reliable for this period">>
            ELSE <<"Market-structure context is", market_classification>>
        decision_line == <<"Decision:", verdict>>
    IN  <<business_line, valuation_line, impairment_line, market_line, decision_line>>

VERDICT_INPUTS_USED ==
    <<"gate2_output.pass", "gate2_output.margin_of_safety",
      "gate3_output.classification", "gate4_output.risk_level",
      "gate5_output.maximum_position_size">>

\* bool(x): a present TRUE
Truthy(opt) == opt = <<TRUE>>

\* risk level examined before the valuation result
verdict_of_risk_first(valuation_pass, impairment_risk) ==
    IF impairment_risk = "HIGH"
    THEN <<"REJECT", "Impairment risk elevated", "REJECT - Impairment risk elevated">>
    ELSE IF impairment_risk = "UNDETERMINED"
    THEN <<"WATCH", "Impairment unresolved", "WATCH - Impairment unresolved">>
    ELSE IF impairment_risk = "LOW"
    THEN <<"INVEST", "Risk acceptable", "INVEST - Risk acceptable">>
    ELSE IF ~valuation_pass
    THEN <<"REJECT", "Valuation discipline breached",
           "REJECT - Valuation discipline breached">>
    ELSE <<"WATCH", "Risk moderate", "WATCH - Risk moderate">>

\* variant: an unresolved impairment is treated as an acceptable one
verdict_of_unresolved_as_low(valuation_pass, impairment_risk) ==
    IF ~valuation_pass
    THEN <<"REJECT", "Valuation discipline breached",
           "REJECT - Valuation discipline breached">>
    ELSE IF impairment_risk = "HIGH"
    THEN <<"REJECT", "Impairment risk elevated", "REJECT - Impairment risk elevated">>
    ELSE IF impairment_risk \in {"LOW", "UNDETERMINED"}
    THEN <<"INVEST", "Risk acceptable", "INVEST - Risk acceptable">>
    ELSE <<"WATCH", "Risk moderate", "WATCH - Risk moderate">>

\* lines 152-166 and 244, on the upper-cased risk level:
\* <<verdict, setup_label, one_liner>>
verdict_of(valuation_pass, impairment_risk) ==
    IF ~valuation_pass
    THEN <<"REJECT", "Valuation discipline breached",
           "REJECT - Valuation discipline breached">>
    ELSE IF impairment_risk = "HIGH"
    THEN <<"REJECT", "Impairment risk elevated", "REJECT - Impairment risk elevated">>
    ELSE IF impairment_risk = "UNDETERMINED"
    THEN <<"WATCH", "Impairment unresolved", "WATCH - Impairment unresolved">>
    ELSE IF impairment_risk = "LOW"
    THEN <<"INVEST", "Risk acceptable", "INVEST - Risk acceptable">>
    ELSE <<"WATCH", "Risk moderate", "WATCH - Risk moderate">>

investment_stance_of(verdict) ==
    CASE verdict = "INVEST" -> "Valuation discipline met with acceptable impairment risk"
      [] verdict = "WATCH" -> "Valuation/risk signals are incomplete or mixed"
      [] verdict = "REJECT" -> "Valuation or impairment discipline not met"

\* variant: only the first of the diagnostics is examined
AnyMissingInputs_first_only(diags) ==
    Get(diags[1], "missing_inputs", <<>>) # <<>>

\* any(bool(diag.get("missing_inputs", [])) for diag in diags)
AnyMissingInputs(diags) ==
    \E i \in DOMAIN diags : Get(diags[i], "missing_inputs", <<>>) # <<>>

\* variant: a size is attached under every verdict
attaches_position_size_any_verdict(verdict, gate5_skipped, max_position_size) ==
    ~gate5_skipped /\ ~IsNone(max_position_size)

\* line 235; isinstance(max_position_size, (int, float)) is "not None" here
attaches_position_size(verdict, gate5_skipped, max_position_size) ==
    verdict = "INVEST" /\ ~gate5_skipped /\ ~IsNone(max_position_size)

\* gate1_output is None or gate 1's data dict
aggregate_verdict(gate2_output, gate3_output, gate4_output, gate5_output, gate1_output) ==
    LET gate2_data == _extract_gate_parts(gate2_output)[1]
        gate2_diag == _extract_gate_parts(gate2_output)[2]
        gate3_data == _extract_gate_parts(gate3_output)[1]
        gate3_diag == _extract_gate_parts(gate3_output)[2]
        gate4_data == _extract_gate_parts(gate4_output)[1]
        gate4_diag == _extract_gate_parts(gate4_output)[2]
        gate5_data == _extract_gate_parts(gate5_output)[1]
        gate5_diag == _extract_gate_parts(gate5_output)[2]
        gate5_status == _extract_gate_parts(gate5_output)[3]
        required_fields ==
            << <<"gate3_output.classification", Opt(gate3_data, "classification")>>,
               <<"gate4_output.risk_level", Opt(gate4_data, "risk_level")>> >>
            \o (IF IsNone(Opt(gate2_data, "pass")) /\ IsNone(Opt(gate2_data, "passes"))
                THEN << <<"gate2_output.pass", None>> >> ELSE <<>>)
        missing == missing_required_fields(required_fields)
    IN  IF missing # <<>>
        THEN error_response(GATE6_NAME, "FINAL_VERDICT_MISSING_INPUTS",
                            "Missing required inputs", VERDICT_INPUTS_USED,
                            missing, Str("DATA_AVAILABILITY"))
        ELSE
        LET valuation_pass ==
                Truthy(Opt(gate2_data, "pass")) \/ Truthy(Opt(gate2_data, "passes"))
            valuation_band == Upper(Get(gate2_data, "valuation_band", "UNKNOWN"))
            margin_of_safety == Get(gate2_data, "margin_of_safety", None)
            market_classification == Upper(gate3_data.classification)
            impairment_risk == Upper(gate4_data.risk_level)
            impairment_reason == Get(gate4_data, "reason", Get(gate4_data, "reasoning", ""))
            gate5_skipped ==
                gate5_status = "SKIPPED" \/ Upper(Get(gate5_data, "status", "")) = "SKIPPED"
            max_position_size == Get(gate5_data, "maximum_position_size", None)
            verdict == verdict_of(valuation_pass, impairment_risk)[1]
            setup_label == verdict_of(valuation_pass, impairment_risk)[2]
            key_data_missing ==
                AnyMissingInputs(<<gate2_diag, gate3_diag, gate4_diag, gate5_diag>>)
            confidence == _deterministic_confidence(margin_of_safety, impairment_risk,
                                                    market_classification, key_data_missing)
            business_summary ==
                IF IsNone(gate1_output) THEN None ELSE Opt(gate1_output, "business_summary")
            business_complexity ==
                IF IsNone(gate1_output) THEN None ELSE Opt(gate1_output, "business_complexity")
            summary == _build_executive_summary(verdict, business_summary, valuation_pass,
                           valuation_band, margin_of_safety, impairment_risk,
                           impairment_reason, market_classification)
            gate5_line ==
                IF gate5_skipped THEN <<"SKIPPED - position sizing not applicable">>
                ELSE IF ~IsNone(max_position_size)
                THEN <<"% NAV", round_float(max_position_size, 1)>>
                ELSE <<"N/A">>
            result ==
                [verdict |-> verdict,
                 confidence |-> confidence,
                 summary |-> summary,
                 key_drivers |-> <<"Valuation", "Impairment risk", "Market structure">>,
                 confidence_score |-> round_float(Rat(confidence, 100), 2),
                 investment_stance |-> investment_stance_of(verdict),
                 setup_label |-> setup_label,
                 risk_notes |-> <<valuation_band, impairment_risk, market_classification>>,
                 margin_of_safety |->
                     IF IsNone(margin_of_safety) THEN None
                     ELSE round_float(margin_of_safety, 4),
                 valuation_band |-> valuation_band,
                 market_classification |-> market_classification,
                 impairment_risk |-> impairment_risk,
                 gate_summary |->
                     [gate2_valuation |-> Get(gate2_data, "one_liner", valuation_band),
                      gate3_market_structure |-> gate3_data.classification,
                      gate4_impairment |-> gate4_data.risk_level,
                      gate5_position_sizing |-> gate5_line],
                 business_summary |-> business_summary,
                 business_complexity |-> business_complexity,
                 decision_summary |-> summary]
            sized == attaches_position_size(verdict, gate5_skipped, max_position_size)
        IN  ok_response(GATE6_NAME,
                        IF sized
                        THEN result @@
                             [max_position_size |-> round_float(max_position_size, 1)]
                        ELSE result,
                        VERDICT_INPUTS_USED, confidence,
                        verdict_of(valuation_pass, impairment_risk)[3], None, <<>>)

-----------------------------------------------------------------------------
(* gates/gate1_business_context.py *)

GATE1_NAME == "Gate 1 - Business Context"

VALID_COMPLEXITY == {"LOW", "MEDIUM", "HIGH"}

VALID_GEOGRAPHIC_EXPOSURE == {"DOMESTIC", "INTERNATIONAL", "GLOBAL"}

BUSINESS_CONTEXT_INPUTS_USED ==
    <<"company_name", "sic_description", "business_description", "risk_factors",
      "entity_type">>

\* "not value" for an optional string: None or the empty string
Falsy(opt) == IsNone(opt) \/ opt = Str("")

\* company_name is a string; business_description and risk_factors are None or
\* Str(text).  sic_description, entity_type and sic only enter the prompt.
analyze_business_context(company_name, sic_description, business_description, risk_factors, entity_type, sic, llm) ==
    IF company_name = ""
    THEN error_response(GATE1_NAME, "BUSINESS_CONTEXT_MISSING_COMPANY_NAME",
                        "company_name is required", BUSINESS_CONTEXT_INPUTS_USED,
                        <<"company_name">>, Str("DATA_AVAILABILITY"))
    ELSE
    LET has_filings == ~Falsy(business_description) \/ ~Falsy(risk_factors)
        missing_inputs ==
            (IF Falsy(business_description) THEN <<"business_description">> ELSE <<>>)
            \o (IF Falsy(risk_factors) THEN <<"risk_factors">> ELSE <<>>)
    IN  IF ~GOOGLE_API_KEY
        THEN error_response(GATE1_NAME, "BUSINESS_CONTEXT_LLM_KEY_MISSING",
                            "GOOGLE_API_KEY is not set", BUSINESS_CONTEXT_INPUTS_USED,
                            <<>>, Str("DATA_AVAILABILITY"))
        ELSE IF llm.kind = "raise"
        THEN error_response(GATE1_NAME, "BUSINESS_CONTEXT_INTERNAL_ERROR",
                            "Business context classification failed",
                            BUSINESS_CONTEXT_INPUTS_USED, <<>>, Str("DATA_AVAILABILITY"))
        ELSE
        LET business_summary == Get(llm.payload, "business_summary", "")
            key_risk_categories ==
                NonEmptyStrings(Get(llm.payload, "key_risk_categories", <<>>))
            geographic_exposure ==
                LET g == Upper(Get(llm.payload, "geographic_exposure", ""))
                IN  IF g \in VALID_GEOGRAPHIC_EXPOSURE THEN g ELSE "INTERNATIONAL"
            business_complexity ==
                LET c == Upper(Get(llm.payload, "business_complexity", ""))
                IN  IF c \in VALID_COMPLEXITY THEN c ELSE "MEDIUM"
            data == [business_summary |-> business_summary,
                     key_risk_categories |-> key_risk_categories,
                     geographic_exposure |-> geographic_exposure,
                     business_complexity |-> business_complexity]
        IN  IF business_summary = ""
            THEN error_response(GATE1_NAME, "BUSINESS_CONTEXT_EMPTY_SUMMARY",
                                "LLM returned empty business_summary",
                                BUSINESS_CONTEXT_INPUTS_USED, <<>>,
                                Str("DATA_AVAILABILITY"))
            ELSE IF ~has_filings
            THEN partial_response(GATE1_NAME, data, BUSINESS_CONTEXT_INPUTS_USED,
                                  missing_inputs, 40,
                                  "PARTIAL - filings not available",
                                  Str("DATA_AVAILABILITY"))
            ELSE ok_response(GATE1_NAME, data, BUSINESS_CONTEXT_INPUTS_USED, 85,
                             "complexity, exposure, risk categories", None,
                             missing_inputs)

-----------------------------------------------------------------------------
(* gates/gate3_market_structure.py *)

GATE3_NAME == "Gate 3 - Market Structure"

VALID_CLASSIFICATIONS == {"TAILWIND", "NEUTRAL", "HEADWIND", "NO_RELEVANT_DATA_FOUND"}

\* A reasoning text is the sequence of its sentences.  These are the sentences
\* that name one of the variables of VARIABLE_REFERENCES.
REFERENCING_SENTENCES ==
    {"Volume spike is above average volume.", "Flow signal is positive.",
     "Price direction is down.", "Macro signal is neutral."}

_sentence_has_variable_reference(sentence) == sentence \in REFERENCING_SENTENCES

_reasoning_has_sentence_level_references(reasoning) ==
    /\ reasoning # <<>>
    /\ \A i \in DOMAIN reasoning : _sentence_has_variable_reference(reasoning[i])

_first_n_sentences(reasoning, n) ==
    IF Len(reasoning) <= n THEN reasoning ELSE SubSeq(reasoning, 1, n)

\* volumes are numbers or None; price_direction and flow_signal None or Str(s)
_is_no_data(avg_volume, last_volume, price_direction, flow_signal, yes_price, no_price) ==
    \/ ~IsNone(avg_volume) /\ avg_volume = Zero
    \/ ~IsNone(last_volume) /\ last_volume = Zero
    \/ /\ ~IsNone(price_direction) /\ Upper(price_direction[1]) = "FLAT"
       /\ ~IsNone(flow_signal) /\ Upper(flow_signal[1]) = "NEUTRAL"
    \/ IsNone(yes_price) /\ IsNone(no_price)

MARKET_STRUCTURE_INPUTS_USED ==
    <<"last_price", "last_volume", "avg_volume", "volume_spike", "price_direction",
      "flow_signal", "yes_price", "no_price", "macro_signal">>

\* variant: the refusal is reported as an ERROR envelope
_no_relevant_data_response_as_error(inputs_used, reason, missing_inputs) ==
    error_response(GATE3_NAME, "NO_RELEVANT_DATA_FOUND", reason, inputs_used,
                   missing_inputs, None)

_no_relevant_data_response(inputs_used, reason, missing_inputs) ==
    ok_response(GATE3_NAME,
                [classification |-> "NO_RELEVANT_DATA_FOUND",
                 confidence |-> 0,
                 analysis |-> <<"No reliable market-structure signals available for this period.">>,
                 setup_label |-> "No relevant market structure data",
                 reasoning |-> <<reason>>],
                inputs_used, 0,
                "NO_RELEVANT_DATA_FOUND - No reliable market-structure signals",
                None, missing_inputs)

\* classification.replace("_", " ").title()
Title(classification) ==
    CASE classification = "TAILWIND" -> "Tailwind"
      [] classification = "NEUTRAL" -> "Neutral"
      [] classification = "HEADWIND" -> "Headwind"
      [] classification = "NO_RELEVANT_DATA_FOUND" -> "No Relevant Data Found"
      [] OTHER -> classification

analyze_market_structure(last_price, last_volume, avg_volume, volume_spike, price_direction, flow_signal, yes_price, no_price, macro_signal, llm) ==
    LET inputs_used == MARKET_STRUCTURE_INPUTS_USED
        missing == missing_required_fields(
                       << <<"last_price", last_price>>,
                          <<"last_volume", last_volume>>,
                          <<"avg_volume", avg_volume>>,
                          <<"volume_spike", volume_spike>>,
                          <<"price_direction", price_direction>>,
                          <<"flow_signal", flow_signal>>,
                          <<"macro_signal", macro_signal>> >>)
    IN  IF missing # <<>>
        THEN _no_relevant_data_response(inputs_used, "Missing required inputs", missing)
        ELSE IF _is_no_data(avg_volume, last_volume, price_direction, flow_signal,
                            yes_price, no_price)
        THEN _no_relevant_data_response(inputs_used,
                 "Signal channels are inactive or conflicting for this period.", <<>>)
        ELSE IF ~GOOGLE_API_KEY
        THEN _no_relevant_data_response(inputs_used,
                 "LLM key unavailable; returning non-classification fallback.", <<>>)
        ELSE IF llm.kind = "raise"
        THEN _no_relevant_data_response(inputs_used,
                 "Internal market-structure failure", <<>>)
        ELSE
        LET classification == Upper(Get(llm.payload, "classification", ""))
            setup_label ==
                IF Get(llm.payload, "setup_label", "") # ""
                THEN llm.payload.setup_label ELSE Title(classification)
            reasoning == _first_n_sentences(Get(llm.payload, "reasoning", <<>>), 3)
            gate_confidence ==
                IF classification = "NO_RELEVANT_DATA_FOUND" THEN 0
                ELSE IF classification = "NEUTRAL" THEN 60 ELSE 75
        IN  IF classification \notin VALID_CLASSIFICATIONS
            THEN _no_relevant_data_response(inputs_used,
                     "Model returned invalid classification", <<>>)
            ELSE IF Get(llm.payload, "reasoning", <<>>) = <<>>
            THEN _no_relevant_data_response(inputs_used,
                     "Model returned empty market-structure analysis.", <<>>)
            ELSE IF /\ classification \in {"TAILWIND", "HEADWIND"}
                    /\ ~_reasoning_has_sentence_level_references(reasoning)
            THEN _no_relevant_data_response(inputs_used,
                     "Model output lacked variable-grounded reasoning for classification.",
                     <<>>)
            ELSE ok_response(GATE3_NAME,
                             [classification |-> classification,
                              confidence |-> gate_confidence,
                              analysis |-> reasoning,
                              setup_label |-> setup_label,
                              reasoning |-> reasoning],
                             inputs_used, gate_confidence, classification, None, <<>>)

-----------------------------------------------------------------------------
(* gates/gate4_impairment.py *)

GATE4_NAME == "Gate 4 - Impairment Risk"

VALID_RISK_LEVELS == {"LOW", "MEDIUM", "HIGH", "UNDETERMINED"}

VALID_RISK_DRIVERS == {"LEVERAGE", "REFINANCING", "CASH_FLOW", "NONE"}

IMPAIRMENT_INPUTS_USED ==
    <<"net_income", "free_cashflow", "cash", "total_debt", "net_debt",
      "interest_expense", "interest_coverage", "shares_outstanding", "interest_rate",
      "credit_stress", "credit_stress_index">>

\* variant: the refusal is reported as an ERROR envelope
_undetermined_response_as_error(inputs_used, reason, missing_inputs) ==
    error_response(GATE4_NAME, "UNDETERMINED", reason, inputs_used, missing_inputs,
                   Str("DATA_AVAILABILITY"))

_undetermined_response(inputs_used, reason, missing_inputs) ==
    ok_response(GATE4_NAME,
                [risk_level |-> "UNDETERMINED",
                 risk_driver |-> "NONE",
                 confidence |-> 0,
                 reason |-> reason,
                 reasoning |-> reason,
                 reasoning_valid |-> TRUE],
                inputs_used, 0, "UNDETERMINED", Str("DATA_AVAILABILITY"),
                missing_inputs)

\* The reasoning texts that cite cash vs debt, coverage and the refinancing
\* environment together.
CITING_REASONINGS ==
    {"Cash covers debt; interest coverage is ample at current credit stress."}

_reasoning_meets_constraints(reasoning) == reasoning \in CITING_REASONINGS

\* lines 212-222
impairment_confidence(risk_level, valid_reasoning, has_partial_inputs) ==
    LET gate_confidence ==
            IF risk_level = "UNDETERMINED" THEN 0
            ELSE IF risk_level = "HIGH" THEN (IF valid_reasoning THEN 85 ELSE 60)
            ELSE IF risk_level = "LOW" THEN (IF valid_reasoning THEN 80 ELSE 55)
            ELSE (IF valid_reasoning THEN 70 ELSE 50)
    IN  IF has_partial_inputs
        THEN (IF gate_confidence - 10 > 20 THEN gate_confidence - 10 ELSE 20)
        ELSE gate_confidence

\* credit_stress and business_context are None or Str(s); the rest None or numbers.
\* business_context only enters the prompt.
assess_impairment_risk(net_income, free_cashflow, cash, total_debt, net_debt, interest_expense, interest_coverage, shares_outstanding, interest_rate, credit_stress, credit_stress_index, business_context, llm) ==
    LET inputs_used == IMPAIRMENT_INPUTS_USED
        core_missing == missing_required_fields(
                            << <<"cash", cash>>,
                               <<"total_debt", total_debt>>,
                               <<"interest_rate", interest_rate>>,
                               <<"credit_stress", credit_stress>> >>)
        all_missing == missing_required_fields(
                           << <<"net_income", net_income>>,
                              <<"cash", cash>>,
                              <<"total_debt", total_debt>>,
                              <<"net_debt", net_debt>>,
                              <<"interest_expense", interest_expense>>,
                              <<"interest_coverage", interest_coverage>>,
                              <<"shares_outstanding", shares_outstanding>>,
                              <<"interest_rate", interest_rate>>,
                              <<"credit_stress", credit_stress>>,
                              <<"credit_stress_index", credit_stress_index>> >>)
        has_partial_inputs == all_missing # <<>>
    IN  IF core_missing # <<>>
        THEN _undetermined_response(inputs_used,
                 "Cannot assess impairment - missing core inputs", core_missing)
        ELSE IF IsNone(interest_expense) /\ IsNone(interest_coverage)
        THEN _undetermined_response(inputs_used, INTEREST_NOT_REPORTED,
                                    <<"interest_expense", "interest_coverage">>)
        ELSE IF Upper(credit_stress[1]) \notin VALID_CREDIT_STRESS
        THEN _undetermined_response(inputs_used,
                 "Cannot assess impairment - invalid credit_stress value",
                 <<"credit_stress">>)
        ELSE IF RatGT(interest_rate, Int2Rat(1))
        THEN _undetermined_response(inputs_used,
                 "Cannot assess impairment - interest_rate must be decimal",
                 <<"interest_rate">>)
        ELSE IF ~GOOGLE_API_KEY
        THEN _undetermined_response(inputs_used,
                 "Impairment model unavailable for this run.", <<>>)
        ELSE IF llm.kind = "raise"
        THEN _undetermined_response(inputs_used,
                 "Impairment risk assessment failed", <<>>)
        ELSE
        LET risk_level == Upper(Get(llm.payload, "risk_level", ""))
            risk_driver ==
                LET d == Upper(Get(llm.payload, "risk_driver", ""))
                IN  IF d \in VALID_RISK_DRIVERS THEN d ELSE "NONE"
            reasoning == Get(llm.payload, "reasoning", "")
            valid_reasoning == _reasoning_meets_constraints(reasoning)
            gate_confidence ==
                impairment_confidence(risk_level, valid_reasoning, has_partial_inputs)
            data == [risk_level |-> risk_level,
                     risk_driver |-> risk_driver,
                     credit_stress |-> Upper(credit_stress[1]),
                     credit_stress_index |-> credit_stress_index,
                     reasoning |-> reasoning,
                     reasoning_valid |-> valid_reasoning]
        IN  IF risk_level \notin VALID_RISK_LEVELS
            THEN _undetermined_response(inputs_used,
                     "Impairment model returned invalid risk level", <<>>)
            ELSE IF reasoning = ""
            THEN _undetermined_response(inputs_used,
                     "Impairment model returned empty reasoning.", <<>>)
            ELSE IF has_partial_inputs
            THEN ok_response(GATE4_NAME, data, inputs_used, gate_confidence,
                             risk_level, Str("DATA_AVAILABILITY"), all_missing)
            ELSE ok_response(GATE4_NAME, data, inputs_used, gate_confidence,
                             risk_level, None, <<>>)

-----------------------------------------------------------------------------
(* gates/gate0_identity.py *)

GATE0_NAME == "Gate 0 - Identity"

IDENTITY_INPUTS_USED == <<"company_input">>

\* the largest score of a non-empty sequence of <<score, record>> pairs
RECURSIVE TopMatch(_)
TopMatch(matches) ==
    IF Len(matches) = 1 THEN matches[1]
    ELSE LET rest == TopMatch(Tail(matches))
         IN  IF RatGE(matches[1][1], rest[1]) THEN matches[1] ELSE rest

\* the first occurrence of m removed
RECURSIVE Without(_, _)
Without(matches, m) ==
    IF matches = <<>> THEN <<>>
    ELSE IF Head(matches) = m THEN Tail(matches)
    ELSE <<Head(matches)>> \o Without(Tail(matches), m)

\* sec_tickers is what the SEC ticker file request gives: [kind |-> "http_error"],
\* [kind |-> "raise"], or [kind |-> "companies", exact_matches, fuzzy_matches] with
\* the matches as the scan of lines 74-111 classifies the file's entries.
resolve_identity(company_input, sec_tickers) ==
    IF company_input = ""
    THEN error_response(GATE0_NAME, "IDENTITY_INVALID_INPUT",
                        "company_input must be a non-empty string",
                        IDENTITY_INPUTS_USED, <<"company_input">>,
                        Str("DATA_AVAILABILITY"))
    ELSE IF sec_tickers.kind = "http_error"
    THEN error_response(GATE0_NAME, "IDENTITY_FETCH_FAILED",
                        "Failed to fetch SEC company data", IDENTITY_INPUTS_USED,
                        <<>>, Str("DATA_AVAILABILITY"))
    ELSE IF sec_tickers.kind = "raise"
    THEN error_response(GATE0_NAME, "IDENTITY_INTERNAL_ERROR",
                        "Identity resolution failed", IDENTITY_INPUTS_USED,
                        <<>>, Str("DATA_AVAILABILITY"))
    ELSE
    LET exact_matches == sec_tickers.exact_matches
        fuzzy_matches == sec_tickers.fuzzy_matches
    IN  IF Len(exact_matches) = 1
        THEN ok_response(GATE0_NAME,
                         exact_matches[1] @@ [confidence_score |-> Int2Rat(1)],
                         IDENTITY_INPUTS_USED, 100, "Resolved via EXACT match",
                         None, <<>>)
        ELSE IF Len(exact_matches) > 1
        THEN error_response(GATE0_NAME, "IDENTITY_AMBIGUOUS",
                            "Multiple exact matches", IDENTITY_INPUTS_USED,
                            <<>>, Str("DATA_AVAILABILITY"))
        ELSE IF fuzzy_matches = <<>>
        THEN error_response(GATE0_NAME, "IDENTITY_NOT_FOUND",
                            "No company found", IDENTITY_INPUTS_USED,
                            <<>>, Str("DATA_AVAILABILITY"))
        ELSE
        LET top == TopMatch(fuzzy_matches)
            top_score == top[1]
            top_record == top[2]
            second_score ==
                IF Len(fuzzy_matches) > 1
                THEN TopMatch(Without(fuzzy_matches, top))[1] ELSE Zero
        IN  IF /\ Len(fuzzy_matches) > 1
               /\ RatLE(RatSub(top_score, second_score), Rat(5, 100))
            THEN error_response(GATE0_NAME, "IDENTITY_AMBIGUOUS",
                                "Ambiguous fuzzy match", IDENTITY_INPUTS_USED,
                                <<>>, Str("DATA_AVAILABILITY"))
            ELSE ok_response(GATE0_NAME,
                             top_record @@
                             [confidence_score |-> round_float(top_score, 4)],
                             IDENTITY_INPUTS_USED,
                             round_float(RatMul(top_score, Int2Rat(100)), 0)[1],
                             "Resolved via FUZZY match", None, <<>>)

-----------------------------------------------------------------------------
(* data_fetchers/sec_fetcher.py *)

SEC_NAME == "Data Fetcher - SEC"

SEC_CONTEXT_NAME == "Data Fetcher - SEC Business Context"

SEC_INPUTS_USED ==
    <<"cik", "NetIncomeLoss", "OperatingIncomeLoss", "InterestExpense",
      "EntityCommonStockSharesOutstanding">>

SEC_CONTEXT_INPUTS_USED == <<"cik", "submissions", "10-K_filing_text">>

\* The CIK strings that occur.  The second is ten characters that str.isdigit
\* accepts and int() rejects (digits outside the decimal range, as a
\* superscript two); the third is not numeric.
CIK_PLAIN == "0000320193"
CIK_NON_DECIMAL_DIGITS == "000000000(superscript 2)"
CIK_NOT_NUMERIC == "00000000NA"

\* str(cik).strip().zfill(10) is all digits and ten long
IsTenDigits(cik) == cik \in {CIK_PLAIN, CIK_NON_DECIMAL_DIGITS}

\* int(normalized_cik) succeeds
IntParses(cik) == cik = CIK_PLAIN

OrZero(v) == IF IsNone(v) THEN Zero ELSE v

RoundOrNone(v, digits) == IF IsNone(v) THEN None ELSE round_float(v, digits)

\* companyfacts is what the company-facts request gives: [kind |-> "not_found"],
\* [kind |-> "http_error"], [kind |-> "raise"], or [kind |-> "facts", ...] with the
\* anchor fact's fiscal period complete or not and each metric as the
\* extraction of lines 189-281 finds it (None when no concept reports it).
fetch_sec_data(cik, companyfacts) ==
    IF ~IsTenDigits(cik)
    THEN error_response(SEC_NAME, "SEC_INVALID_CIK",
                        "CIK must be a 10-digit numeric string", SEC_INPUTS_USED,
                        <<>>, Str("DATA_AVAILABILITY"))
    ELSE IF companyfacts.kind = "not_found"
    THEN error_response(SEC_NAME, "SEC_COMPANY_NOT_FOUND",
                        "No SEC company facts found", SEC_INPUTS_USED,
                        <<>>, Str("DATA_AVAILABILITY"))
    ELSE IF companyfacts.kind = "http_error"
    THEN error_response(SEC_NAME, "SEC_FETCH_HTTP_ERROR",
                        "Failed to fetch SEC data", SEC_INPUTS_USED,
                        <<>>, Str("DATA_AVAILABILITY"))
    ELSE IF companyfacts.kind = "raise"
    THEN error_response(SEC_NAME, "SEC_INTERNAL_ERROR",
                        "SEC fetch failed", SEC_INPUTS_USED,
                        <<>>, Str("DATA_AVAILABILITY"))
    ELSE IF IsNone(companyfacts.net_income)
    THEN error_response(SEC_NAME, "SEC_MISSING_ANCHOR_PERIOD",
                        "Missing NetIncomeLoss facts to anchor fiscal period",
                        SEC_INPUTS_USED, <<>>, Str("DATA_AVAILABILITY"))
    ELSE IF ~companyfacts.period_complete
    THEN error_response(SEC_NAME, "SEC_ANCHOR_PERIOD_INCOMPLETE",
                        "Anchor fact is missing fiscal year or fiscal period",
                        SEC_INPUTS_USED, <<>>, Str("DATA_AVAILABILITY"))
    ELSE
    LET net_income == companyfacts.net_income
        operating_cashflow == companyfacts.operating_cashflow
        capex == companyfacts.capex
        cash == companyfacts.cash
        shares_outstanding == companyfacts.shares_outstanding
        interest_expense == companyfacts.interest_expense
        operating_income == companyfacts.operating_income
        free_cashflow ==
            IF IsNone(operating_cashflow) THEN None
            ELSE RatSub(operating_cashflow, OrZero(capex))
        long_term_debt_value == OrZero(companyfacts.long_term_debt)
        current_debt_value == OrZero(companyfacts.current_debt)
        total_debt == RatAdd(long_term_debt_value, current_debt_value)
        interest_coverage ==
            IF /\ ~IsNone(interest_expense) /\ ~IsNone(operating_income)
               /\ interest_expense # Zero
            THEN RatDiv(operating_income,
                        IF RatLT(interest_expense, Zero)
                        THEN RatSub(Zero, interest_expense) ELSE interest_expense)
            ELSE None
        missing == missing_required_fields(
                       << <<"net_income", net_income>>,
                          <<"operating_cashflow", operating_cashflow>>,
                          <<"cash", cash>>,
                          <<"shares_outstanding", shares_outstanding>> >>)
    IN  IF missing # <<>>
        THEN error_response(SEC_NAME, "SEC_MISSING_REQUIRED_METRICS",
                            "Missing SEC metrics", SEC_INPUTS_USED, missing,
                            Str("DATA_AVAILABILITY"))
        ELSE ok_response(SEC_NAME,
                 [net_income |-> round_float(net_income, 2),
                  operating_cashflow |-> round_float(operating_cashflow, 2),
                  capex |-> RoundOrNone(capex, 2),
                  free_cashflow |-> round_float(free_cashflow, 2),
                  cash |-> round_float(cash, 2),
                  long_term_debt |-> round_float(long_term_debt_value, 2),
                  current_debt |-> round_float(current_debt_value, 2),
                  total_debt |-> round_float(total_debt, 2),
                  shares_outstanding |-> round_float(shares_outstanding, 2),
                  interest_expense |-> RoundOrNone(interest_expense, 2),
                  interest_coverage |-> RoundOrNone(interest_coverage, 6),
                  data_source |-> "SEC_EDGAR_XBRL",
                  \* the concept each debt figure was read from, None when no
                  \* candidate concept has a fact for the period
                  concepts_used |->
                      [long_term_debt |->
                           IF IsNone(companyfacts.long_term_debt) THEN None
                           ELSE Str("LongTermDebt"),
                       current_debt |->
                           IF IsNone(companyfacts.current_debt) THEN None
                           ELSE Str("DebtCurrent")]],
                 SEC_INPUTS_USED,
                 IF companyfacts.shares_source_note = "exact_period" THEN 95 ELSE 75,
                 "SEC fundamentals loaded", None, <<>>)

\* submissions is what the submissions request gives: [kind |-> "http_error"],
\* [kind |-> "raise"], or [kind |-> "submissions", company_name, sic,
\* sic_description, entity_type, business_description, risk_factors] with the two
\* filing sections None when no filing text was extracted.  The call raises
\* (line 473, outside the try) when int() rejects the CIK.
fetch_sec_business_context(cik, submissions) ==
    IF ~IntParses(cik) THEN [raised |-> "ValueError"]
    ELSE IF submissions.kind = "http_error"
    THEN error_response(SEC_CONTEXT_NAME, "SEC_BUSINESS_CONTEXT_HTTP_ERROR",
                        "Failed to fetch SEC business context",
                        SEC_CONTEXT_INPUTS_USED, <<>>, Str("DATA_AVAILABILITY"))
    ELSE IF submissions.kind = "raise"
    THEN error_response(SEC_CONTEXT_NAME, "SEC_BUSINESS_CONTEXT_INTERNAL_ERROR",
                        "SEC business context fetch failed",
                        SEC_CONTEXT_INPUTS_USED, <<>>, Str("DATA_AVAILABILITY"))
    ELSE
    LET has_desc == ~Falsy(submissions.business_description)
        has_risk == ~Falsy(submissions.risk_factors)
    IN  ok_response(SEC_CONTEXT_NAME,
                    [company_name |-> submissions.company_name,
                     sic |-> submissions.sic,
                     sic_description |-> submissions.sic_description,
                     entity_type |-> submissions.entity_type,
                     business_description |-> submissions.business_description,
                     risk_factors |-> submissions.risk_factors],
                    SEC_CONTEXT_INPUTS_USED,
                    IF has_desc /\ has_risk THEN 90
                    ELSE IF has_desc \/ has_risk THEN 60 ELSE 30,
                    "business context loaded", None, <<>>)

-----------------------------------------------------------------------------
(* data_fetchers/polygon_fetcher.py *)

POLYGON_NAME == "Data Fetcher - Polygon"

POLYGON_INPUTS_USED ==
    <<"ticker", "POLYGON_API_KEY|DOME_API_KEY", "daily bars", "SPY benchmark",
      "lookback_1y">>

\* bars is the last two closes, the last volume and the average volume of the
\* earlier bars, all numbers
_compute_flow_metrics(bars) ==
    LET avg_volume == bars.avg_volume
        last_volume == bars.last_volume
        volume_ratio == IF avg_volume # Zero THEN RatDiv(last_volume, avg_volume) ELSE Zero
        volume_spike ==
            IF avg_volume # Zero
            THEN RatGT(last_volume, RatMul(avg_volume, Rat(15, 10))) ELSE FALSE
        price_up == RatGT(bars.last_close, bars.prev_close)
        price_down == RatLT(bars.last_close, bars.prev_close)
    IN  [last_price |-> bars.last_close,
         last_volume |-> last_volume,
         avg_volume |-> avg_volume,
         volume_spike |-> volume_ratio,
         volume_spike_flag |-> volume_spike,
         price_direction |-> IF price_up THEN "UP" ELSE IF price_down THEN "DOWN" ELSE "FLAT",
         flow_signal |-> IF volume_spike /\ price_up THEN "POSITIVE"
                         ELSE IF volume_spike /\ price_down THEN "NEGATIVE"
                         ELSE "NEUTRAL"]

\* correlation is None when the two series are shorter than 30 closes or one of
\* them has no variance, else the correlation coefficient:
\* <<correlation_index, correlation_fallback_used>>
_correlation_index(correlation) ==
    IF IsNone(correlation) THEN <<Rat(65, 100), TRUE>>
    ELSE <<IF RatLT(correlation, Zero) THEN RatSub(Zero, correlation) ELSE correlation,
           FALSE>>

\* lines 444-454
dome_macro_signal(yes_price, no_price) ==
    IF ~IsNone(yes_price) /\ ~IsNone(no_price)
    THEN IF RatGT(yes_price, no_price) THEN "SUPPORTIVE"
         ELSE IF RatLT(yes_price, no_price) THEN "HOSTILE" ELSE "NEUTRAL"
    ELSE "NEUTRAL"

\* market is what the market-data requests give: [kind |-> "no_key"],
\* [kind |-> "http_error"], [kind |-> "raise"] (too few bars among the causes), or
\* [kind |-> "bars", ...] with the previous close (None when missing), the flow
\* bars, the annualized volatility and maximum drawdown computed from the
\* year's closes, the correlation, and the prediction-market prices.
fetch_polygon_data(ticker, market) ==
    IF market.kind = "no_key"
    THEN error_response(POLYGON_NAME, "POLYGON_API_KEY_MISSING",
                        "Neither POLYGON_API_KEY nor DOME_API_KEY is set",
                        POLYGON_INPUTS_USED, <<>>, Str("DATA_AVAILABILITY"))
    ELSE IF market.kind = "http_error"
    THEN error_response(POLYGON_NAME, "POLYGON_FETCH_HTTP_ERROR",
                        "Failed to fetch market data", POLYGON_INPUTS_USED,
                        <<>>, Str("DATA_AVAILABILITY"))
    ELSE IF market.kind = "raise"
    THEN error_response(POLYGON_NAME, "POLYGON_INTERNAL_ERROR",
                        "Market data fetch failed", POLYGON_INPUTS_USED,
                        <<>>, Str("DATA_AVAILABILITY"))
    ELSE IF IsNone(market.prev_close)
    THEN error_response(POLYGON_NAME, "POLYGON_PREV_CLOSE_MISSING",
                        "Previous close is missing", POLYGON_INPUTS_USED,
                        <<>>, Str("DATA_AVAILABILITY"))
    ELSE
    LET flow_metrics == _compute_flow_metrics(market.flow_bars)
        correlation_index == _correlation_index(market.correlation)[1]
        correlation_fallback_used == _correlation_index(market.correlation)[2]
        is_primary == market.prev_source # "STOOQ_FALLBACK"
        poly_confidence ==
            (IF is_primary THEN 90 ELSE 70) - (IF correlation_fallback_used THEN 10 ELSE 0)
    IN  ok_response(POLYGON_NAME,
            [market_price |-> round_float(market.prev_close, 4),
             price_source |-> market.prev_source,
             last_price |-> round_float(flow_metrics.last_price, 4),
             last_volume |-> flow_metrics.last_volume,
             avg_volume |-> flow_metrics.avg_volume,
             volume_spike |-> round_float(flow_metrics.volume_spike, 6),
             volume_spike_flag |-> flow_metrics.volume_spike_flag,
             price_direction |-> flow_metrics.price_direction,
             flow_signal |-> flow_metrics.flow_signal,
             volatility |-> round_float(market.volatility_annualized, 6),
             max_drawdown |-> round_float(market.max_drawdown, 6),
             correlation_index |-> round_float(correlation_index, 4),
             correlation_fallback_used |-> correlation_fallback_used,
             yes_price |-> RoundOrNone(market.yes_price, 6),
             no_price |-> RoundOrNone(market.no_price, 6),
             macro_signal |-> dome_macro_signal(market.yes_price, market.no_price)],
            POLYGON_INPUTS_USED, poly_confidence, "Market data loaded",
            IF correlation_fallback_used THEN Str("DATA_AVAILABILITY") ELSE None,
            <<>>)

-----------------------------------------------------------------------------
(* data_fetchers/fred_fetcher.py *)

FRED_NAME == "Data Fetcher - FRED"

FRED_INPUTS_USED == <<"DFF", "NFCI", "FRED_API_KEY">>

_credit_stress_band(nfci_value) ==
    IF RatGE(nfci_value, Rat(75, 100)) THEN "HIGH"
    ELSE IF RatGE(nfci_value, Zero) THEN "MEDIUM"
    ELSE "LOW"

_credit_stress_regime(nfci_value) ==
    IF RatGE(nfci_value, Rat(75, 100)) THEN "TIGHT"
    ELSE IF RatGE(nfci_value, Zero) THEN "NEUTRAL"
    ELSE "EASY"

\* series is what the two FRED requests give: [kind |-> "no_key"],
\* [kind |-> "http_error"], [kind |-> "raise"], or [kind |-> "observations", dff,
\* nfci] with the latest value of each series (None when there is none)
fetch_fred_data(series) ==
    IF series.kind = "no_key"
    THEN error_response(FRED_NAME, "FRED_API_KEY_MISSING", "FRED_API_KEY is not set",
                        FRED_INPUTS_USED, <<>>, Str("DATA_AVAILABILITY"))
    ELSE IF series.kind = "http_error"
    THEN error_response(FRED_NAME, "FRED_FETCH_HTTP_ERROR", "Failed to fetch FRED data",
                        FRED_INPUTS_USED, <<>>, Str("DATA_AVAILABILITY"))
    ELSE IF series.kind = "raise"
    THEN error_response(FRED_NAME, "FRED_INTERNAL_ERROR", "FRED fetch failed",
                        FRED_INPUTS_USED, <<>>, Str("DATA_AVAILABILITY"))
    ELSE IF IsNone(series.dff)
    THEN error_response(FRED_NAME, "FRED_MISSING_DFF",
                        "Missing latest DFF observation from FRED",
                        FRED_INPUTS_USED, <<>>, Str("DATA_AVAILABILITY"))
    ELSE IF IsNone(series.nfci)
    THEN error_response(FRED_NAME, "FRED_MISSING_NFCI",
                        "Missing latest NFCI observation from FRED",
                        FRED_INPUTS_USED, <<>>, Str("DATA_AVAILABILITY"))
    ELSE
    LET interest_rate == RatDiv(series.dff, Int2Rat(100))
    IN  ok_response(FRED_NAME,
                    [interest_rate |-> round_float(interest_rate, 6),
                     credit_stress |-> _credit_stress_band(series.nfci),
                     credit_stress_regime |-> _credit_stress_regime(series.nfci),
                     credit_stress_index |-> round_float(series.nfci, 6),
                     macro_signal |-> "NEUTRAL",
                     data_source |-> "FRED_API"],
                    FRED_INPUTS_USED, 95, "Macro regime", None, <<>>)

-----------------------------------------------------------------------------
(* response_utils.py: compute_pipeline_confidence *)

\* str(result.get("gate", "")).lower() starts with the prefix
GateNameStartsWith(name, prefix) ==
    \/ prefix = "gate 2" /\ name = GATE2_NAME
    \/ prefix = "gate 3" /\ name = GATE3_NAME
    \/ prefix = "gate 4" /\ name = GATE4_NAME

RECURSIVE _find_gate_data(_, _)
_find_gate_data(results, prefix) ==
    IF results = <<>> THEN EmptyDict
    ELSE IF GateNameStartsWith(Get(Head(results), "gate", ""), prefix)
            /\ "data" \in DOMAIN Head(results)
    THEN Head(results).data
    ELSE _find_gate_data(Tail(results), prefix)

\* variant: missing inputs cost 20
compute_pipeline_confidence_penalty_20(results) ==
    IF results = <<>> THEN 0
    ELSE
    LET gate2 == _find_gate_data(results, "gate 2")
        gate3 == _find_gate_data(results, "gate 3")
        gate4 == _find_gate_data(results, "gate 4")
        margin_of_safety == Get(gate2, "margin_of_safety", None)
        c1 == 50 + (IF ~IsNone(margin_of_safety) /\ RatLT(margin_of_safety, Int2Rat(-1))
                    THEN 20 ELSE 0)
        c2 == c1 + (IF Upper(Get(gate4, "risk_level", "")) = "LOW" THEN 10 ELSE 0)
        c3 == c2 - (IF Upper(Get(gate3, "classification", "")) = "HEADWIND" THEN 10 ELSE 0)
        key_data_missing ==
            \E i \in DOMAIN results :
                Get(Get(results[i], "diagnostics", EmptyDict), "missing_inputs", <<>>) # <<>>
        c4 == c3 - (IF key_data_missing THEN 20 ELSE 0)
    IN  Clamp0to100(c4)

\* variant: no penalty for missing inputs
compute_pipeline_confidence_no_penalty(results) ==
    IF results = <<>> THEN 0
    ELSE
    LET gate2 == _find_gate_data(results, "gate 2")
        gate3 == _find_gate_data(results, "gate 3")
        gate4 == _find_gate_data(results, "gate 4")
        margin_of_safety == Get(gate2, "margin_of_safety", None)
        c1 == 50 + (IF ~IsNone(margin_of_safety) /\ RatLT(margin_of_safety, Int2Rat(-1))
                    THEN 20 ELSE 0)
        c2 == c1 + (IF Upper(Get(gate4, "risk_level", "")) = "LOW" THEN 10 ELSE 0)
        c3 == c2 - (IF Upper(Get(gate3, "classification", "")) = "HEADWIND" THEN 10 ELSE 0)
    IN  Clamp0to100(c3)

compute_pipeline_confidence(results) ==
    IF results = <<>> THEN 0
    ELSE
    LET gate2 == _find_gate_data(results, "gate 2")
        gate3 == _find_gate_data(results, "gate 3")
        gate4 == _find_gate_data(results, "gate 4")
        margin_of_safety == Get(gate2, "margin_of_safety", None)
        c1 == 50 + (IF ~IsNone(margin_of_safety) /\ RatLT(margin_of_safety, Int2Rat(-1))
                    THEN 20 ELSE 0)
        c2 == c1 + (IF Upper(Get(gate4, "risk_level", "")) = "LOW" THEN 10 ELSE 0)
        c3 == c2 - (IF Upper(Get(gate3, "classification", "")) = "HEADWIND" THEN 10 ELSE 0)
        key_data_missing ==
            \E i \in DOMAIN results :
                Get(Get(results[i], "diagnostics", EmptyDict), "missing_inputs", <<>>) # <<>>
        c4 == c3 - (IF key_data_missing THEN 10 ELSE 0)
    IN  Clamp0to100(c4)

-----------------------------------------------------------------------------
(* orchestrator.py *)

_is_fatal(result) == Get(result, "status", "") = "ERROR"

_gate_confidence(result) == Get(result, "confidence", 0)

\* variant: suppression on a HIGH impairment instead of a failed valuation
_should_suppress_sizing_on_impairment(gate2_result, gate4_result) ==
    Get(Get(gate4_result, "data", EmptyDict), "risk_level", "") = "HIGH"

_should_suppress_sizing(gate2_result, gate4_result) ==
    LET g2_data == Get(gate2_result, "data", EmptyDict)
    IN  ~(Truthy(Opt(g2_data, "pass")) \/ Truthy(Opt(g2_data, "passes")))

\* {k: _gate_confidence(v) for k, v in outputs.items() if "confidence" in v}
gate_confidences_of(outs) ==
    [k \in {key \in DOMAIN outs : "confidence" \in DOMAIN outs[key]} |->
        _gate_confidence(outs[k])]

ONE_LINER_KEYS == {"identity", "gate1", "gate2", "gate3", "gate4", "gate5", "final"}

\* lines 231-235
gate_one_liners_of(outs) ==
    [k \in {key \in ONE_LINER_KEYS \cap DOMAIN outs : Get(outs[key], "one_liner", "") # ""} |->
        outs[k].one_liner]

\* variant: the error is looked up in the failed envelope's data
_pipeline_error_from_data(failed_stage, failed_result, outs, results) ==
    [pipeline |->
        [confidence |-> IF results # <<>> THEN compute_pipeline_confidence(results) ELSE 0,
         gate_confidences |-> gate_confidences_of(outs),
         notes |-> << <<"Pipeline halted at", failed_stage>> >>],
     metadata |-> [inputs_used |-> <<"company_input">>]]
    @@ outs
    @@ [status |-> "ERROR",
        failed_stage |-> failed_stage,
        error |-> Get(Get(failed_result, "data", EmptyDict), "error", None)]

\* variant: the failed envelope is scanned with the collected ones
_pipeline_error_scans_failed(failed_stage, failed_result, outs, results) ==
    [pipeline |->
        [confidence |-> compute_pipeline_confidence(results \o <<failed_result>>),
         gate_confidences |-> gate_confidences_of(outs),
         notes |-> << <<"Pipeline halted at", failed_stage>> >>],
     metadata |-> [inputs_used |-> <<"company_input">>]]
    @@ outs
    @@ [status |-> "ERROR",
        failed_stage |-> failed_stage,
        error |-> Get(failed_result, "error", None)]

\* A dict literal: a key written later replaces the same key written earlier.
\* The timestamp of metadata is left out.
_pipeline_error(failed_stage, failed_result, outs, results) ==
    [pipeline |->
        [confidence |-> IF results # <<>> THEN compute_pipeline_confidence(results) ELSE 0,
         gate_confidences |-> gate_confidences_of(outs),
         notes |-> << <<"Pipeline halted at", failed_stage>> >>],
     metadata |-> [inputs_used |-> <<"company_input">>]]
    @@ outs
    @@ [status |-> "ERROR",
        failed_stage |-> failed_stage,
        error |-> Get(failed_result, "error", None)]

\* lines 237-254
pipeline_ok(outs, results, notes) ==
    [pipeline |->
        [confidence |-> compute_pipeline_confidence(results),
         gate_confidences |-> gate_confidences_of(outs),
         gate_one_liners |-> gate_one_liners_of(outs),
         notes |-> notes],
     metadata |->
        [inputs_used |-> <<"company_input">>,
         verdict |-> Get(Get(outs.final, "data", EmptyDict), "verdict", "UNKNOWN")]]
    @@ outs
    @@ [status |-> "OK"]

-----------------------------------------------------------------------------
(* Configuration and the inputs of the calls *)

\* <<VALUATION_MULTIPLE, REQUIRED_MARGIN_OF_SAFETY>> as set in the environment;
\* the first is the default of gate2_valuation.py:38-39
Configs ==
    { <<Int2Rat(10), Rat(30, 100)>>,
      <<Int2Rat(10), Rat(22, 100)>>,
      <<Int2Rat(10), Rat(10, 100)>>,
      <<Int2Rat(8), Rat(30005, 100000)>> }

DefaultConfig == <<Int2Rat(10), Rat(30, 100)>>

\* the language model is not asked when GOOGLE_API_KEY is not set
NotCalled == [kind |-> "not_called"]

SupervisorReplies ==
    { [kind |-> "raise"],
      [kind |-> "reply",
       payload |-> [supervisor_commentary |-> "Valuation passes.",
                    pathological_flags |-> <<"negative earnings", "">>]],
      [kind |-> "reply",
       payload |-> [supervisor_commentary |-> "Treat as a pass.",
                    pathological_flags |-> <<>>,
                    pass |-> TRUE,
                    valuation_band |-> "DEEP_VALUE",
                    margin_of_safety |-> Rat(90, 100)]],
      [kind |-> "reply", payload |-> EmptyDict] }

LlmChoices(replies) == IF GOOGLE_API_KEY THEN replies ELSE {NotCalled}

MaxShares == 3

SharesInputs == {None} \cup {Int2Rat(n) : n \in -1 .. MaxShares} \cup {Int2Rat(10)}

NetIncomeInputs == {None, Int2Rat(-20), Int2Rat(100)}

FreeCashflowInputs == {None, Int2Rat(80), Int2Rat(120)}

TotalDebtInputs == {None, Int2Rat(0), Int2Rat(50), Int2Rat(900)}

CashInputs == {None, Int2Rat(50), Int2Rat(70)}

MarketPriceInputs ==
    {None, Int2Rat(5), Int2Rat(300), Rat(30001, 100), Int2Rat(700)}

NoCall == [fn |-> "none"]

ConfigInit(configs) ==
    /\ \E c \in configs : VALUATION_MULTIPLE = c[1] /\ REQUIRED_MARGIN = c[2]
    /\ GOOGLE_API_KEY \in BOOLEAN

RunInit ==
    /\ pc = "start"
    /\ outputs = EmptyDict
    /\ gate_results = <<>>
    /\ pipeline_notes = <<>>
    /\ gate1_data = None
    /\ invoked = <<>>
    /\ handed = EmptyDict
    /\ response = None

-----------------------------------------------------------------------------
(* Direct calls of calculate_valuation *)

CallValuation ==
    /\ call = NoCall
    /\ pc = "start"
    /\ \E market_price \in MarketPriceInputs, net_income \in NetIncomeInputs,
          free_cashflow \in FreeCashflowInputs, total_debt \in TotalDebtInputs,
          cash \in CashInputs, shares_outstanding \in SharesInputs,
          llm \in LlmChoices(SupervisorReplies) :
          call' = [fn |-> "calculate_valuation",
                   args |-> [market_price |-> market_price,
                             net_income |-> net_income,
                             free_cashflow |-> free_cashflow,
                             total_debt |-> total_debt,
                             cash |-> cash,
                             shares_outstanding |-> shares_outstanding],
                   llm |-> llm,
                   result |-> calculate_valuation(market_price, net_income,
                                  free_cashflow, total_debt, cash,
                                  shares_outstanding, llm)]
    /\ UNCHANGED <<config_vars, run_vars>>

NetDebtInputs == {Int2Rat(-20), Rat(-1, 100), Zero, Rat(1, 100), Int2Rat(850)}

CallPolicy ==
    /\ call = NoCall
    /\ pc = "start"
    /\ \E net_debt \in NetDebtInputs :
          call' = [fn |-> "valuation_policy",
                   args |-> [net_debt |-> net_debt],
                   result |-> valuation_policy(net_debt)]
    /\ UNCHANGED <<config_vars, run_vars>>

InitValuation == ConfigInit(Configs) /\ call = NoCall /\ RunInit

NextValuation == CallValuation \/ CallPolicy

SpecValuation == InitValuation /\ [][NextValuation]_vars

-----------------------------------------------------------------------------
(* Direct calls of calculate_position_size *)

VolatilityInputs == {None, Rat(20, 100), Rat(21, 100), Rat(35, 100), Rat(50, 100), Rat(60, 100)}

DrawdownInputs == {None, Rat(15, 100), Rat(30, 100), Rat(45, 100), Rat(50, 100)}

CorrelationInputs == {None, Rat(30, 100), Rat(60, 100), Rat(80, 100), Rat(90, 100)}

InterestRateInputs ==
    {None, Rat(3, 100), Rat(5, 100), Rat(7, 100), Rat(8, 100), Int2Rat(1),
     Rat(101, 100)}

CreditStressInputs ==
    {None, Str("LOW"), Str("MEDIUM"), Str("HIGH"), Str("low"), Str("JUNK")}

SizingAgentReplies ==
    { [kind |-> "raise"],
      [kind |-> "reply", payload |-> [narrative |-> "", flag |-> "LARGE"]],
      [kind |-> "reply",
       payload |-> [narrative |-> "Size is bound by volatility.", flag |-> "small"]],
      [kind |-> "reply",
       payload |-> [narrative |-> "Use the full size.", flag |-> "LARGE",
                    maximum_position_size |-> Int2Rat(10),
                    binding_constraint |-> "MACRO"]] }

CallSizing ==
    /\ call = NoCall
    /\ pc = "start"
    /\ \E volatility \in VolatilityInputs, max_drawdown \in DrawdownInputs,
          interest_rate \in InterestRateInputs, credit_stress \in CreditStressInputs,
          correlation_index \in CorrelationInputs, upstream_reject \in BOOLEAN,
          llm \in LlmChoices(SizingAgentReplies) :
          call' = [fn |-> "calculate_position_size",
                   args |-> [volatility |-> volatility,
                             max_drawdown |-> max_drawdown,
                             interest_rate |-> interest_rate,
                             credit_stress |-> credit_stress,
                             correlation_index |-> correlation_index,
                             upstream_reject |-> upstream_reject],
                   llm |-> llm,
                   result |-> calculate_position_size(volatility, max_drawdown,
                                  interest_rate, credit_stress, correlation_index,
                                  upstream_reject, llm)]
    /\ UNCHANGED <<config_vars, run_vars>>

InitSizing == ConfigInit({DefaultConfig}) /\ call = NoCall /\ RunInit

NextSizing == CallSizing

SpecSizing == InitSizing /\ [][NextSizing]_vars

\* direct calls of the two gates that consult an advisory language model
NextAdvised == CallValuation \/ CallSizing

SpecAdvised == InitSizing /\ [][NextAdvised]_vars

-----------------------------------------------------------------------------
(* Direct calls of aggregate_verdict *)

Gate3Replies ==
    { [kind |-> "raise"],
      [kind |-> "reply",
       payload |-> [classification |-> "headwind", setup_label |-> "",
                    reasoning |-> <<"Price direction is down.", "Flow signal is positive.">>]],
      [kind |-> "reply",
       payload |-> [classification |-> "TAILWIND", setup_label |-> "Momentum",
                    reasoning |-> <<"Buyers are in control.">>]],
      [kind |-> "reply",
       payload |-> [classification |-> "TAILWIND", setup_label |-> "Momentum",
                    reasoning |-> <<"Volume spike is above average volume.">>]],
      [kind |-> "reply",
       payload |-> [classification |-> "NEUTRAL", setup_label |-> "Range",
                    reasoning |-> <<"Macro signal is neutral.">>]] }

Gate4Replies ==
    { [kind |-> "raise"],
      [kind |-> "reply",
       payload |-> [risk_level |-> "low", risk_driver |-> "NONE",
                    reasoning |-> "Cash covers debt; interest coverage is ample at current credit stress."]],
      [kind |-> "reply",
       payload |-> [risk_level |-> "MEDIUM", risk_driver |-> "REFINANCING",
                    reasoning |-> "Debt is rising."]],
      [kind |-> "reply",
       payload |-> [risk_level |-> "HIGH", risk_driver |-> "LEVERAGE",
                    reasoning |-> "Cash covers debt; interest coverage is ample at current credit stress."]],
      [kind |-> "reply",
       payload |-> [risk_level |-> "UNDETERMINED", risk_driver |-> "junk",
                    reasoning |-> "Debt is rising."]],
      [kind |-> "reply",
       payload |-> [risk_level |-> "SEVERE", risk_driver |-> "LEVERAGE",
                    reasoning |-> "Debt is rising."]],
      [kind |-> "reply",
       payload |-> [risk_level |-> "LOW", risk_driver |-> "NONE", reasoning |-> ""]],
      [kind |-> "reply", payload |-> EmptyDict] }

\* what calculate_valuation returns, and raw data payloads
Gate2Payloads ==
    { calculate_valuation(market_price, net_income, None, Zero, Int2Rat(50),
                          shares_outstanding, [kind |-> "raise"]) :
        market_price \in {Int2Rat(5), Int2Rat(700)},
        net_income \in {Int2Rat(-20), Int2Rat(100)},
        shares_outstanding \in {Int2Rat(3), Int2Rat(10)} }
    \cup { [passes |-> TRUE], [pass |-> FALSE], [valuation_band |-> "FAIR"] }

\* what analyze_market_structure returns, and raw data payloads
Gate3Payloads ==
    { analyze_market_structure(last_price, Int2Rat(900), Int2Rat(500), Rat(18, 10),
                               Str("UP"), Str("POSITIVE"), Rat(60, 100), Rat(40, 100),
                               Str("SUPPORTIVE"), llm) :
        last_price \in {None, Int2Rat(5)}, llm \in LlmChoices(Gate3Replies) }
    \cup { [classification |-> "headwind"], [setup_label |-> "Range"] }

\* what assess_impairment_risk returns, and raw data payloads
Gate4Payloads ==
    { assess_impairment_risk(Int2Rat(100), None, Int2Rat(50), Zero, Int2Rat(-50),
                             interest_expense, interest_coverage, Int2Rat(3),
                             Rat(5, 100), Str("LOW"), Rat(-5, 10), None, llm) :
        interest_expense \in {None, Int2Rat(10)},
        interest_coverage \in {None, Int2Rat(12)},
        llm \in LlmChoices(Gate4Replies) }
    \cup { [risk_level |-> "LOW"], [risk_level |-> "MEDIUM"], [risk_level |-> "HIGH"],
           [risk_level |-> "JUNK"], [reasoning |-> "Debt is rising."] }

\* what calculate_position_size returns, and raw data payloads
Gate5Payloads ==
    { calculate_position_size(volatility, Rat(15, 100), Rat(3, 100), Str("LOW"),
                              Rat(30, 100), upstream_reject, [kind |-> "raise"]) :
        volatility \in {None, Rat(20, 100), Rat(60, 100)},
        upstream_reject \in BOOLEAN }
    \cup { [maximum_position_size |-> Rat(55, 10)], [status |-> "skipped"] }

Gate1Outputs ==
    { None,
      [business_summary |-> "Designs and sells consumer electronics.",
       key_risk_categories |-> <<"Supply chain">>,
       geographic_exposure |-> "GLOBAL",
       business_complexity |-> "LOW"] }

CallVerdict ==
    /\ call = NoCall
    /\ pc = "start"
    /\ \E gate2_output \in Gate2Payloads, gate3_output \in Gate3Payloads,
          gate4_output \in Gate4Payloads, gate5_output \in Gate5Payloads,
          gate1_output \in Gate1Outputs :
          call' = [fn |-> "aggregate_verdict",
                   args |-> [gate2_output |-> gate2_output,
                             gate3_output |-> gate3_output,
                             gate4_output |-> gate4_output,
                             gate5_output |-> gate5_output,
                             gate1_output |-> gate1_output],
                   result |-> aggregate_verdict(gate2_output, gate3_output,
                                  gate4_output, gate5_output, gate1_output)]
    /\ UNCHANGED <<config_vars, run_vars>>

InitVerdict == ConfigInit({DefaultConfig}) /\ call = NoCall /\ RunInit

NextVerdict == CallVerdict

SpecVerdict == InitVerdict /\ [][NextVerdict]_vars

-----------------------------------------------------------------------------
(* run_pipeline, one action per stage; what each collaborator may answer *)

CompanyInputs == {"", "AAPL"}

IdentityRecord(cik, match_type) ==
    [ticker |-> "aapl", company_name |-> "Apple Inc.", cik |-> cik,
     match_type |-> match_type]

SecTickerFeeds ==
    { [kind |-> "http_error"],
      [kind |-> "companies", exact_matches |-> <<IdentityRecord(CIK_PLAIN, "EXACT")>>,
       fuzzy_matches |-> <<>>],
      [kind |-> "companies",
       exact_matches |-> <<IdentityRecord(CIK_NOT_NUMERIC, "EXACT")>>,
       fuzzy_matches |-> <<>>],
      [kind |-> "companies",
       exact_matches |-> <<IdentityRecord(CIK_PLAIN, "EXACT"),
                          IdentityRecord(CIK_NOT_NUMERIC, "EXACT")>>,
       fuzzy_matches |-> <<>>],
      [kind |-> "companies", exact_matches |-> <<>>, fuzzy_matches |-> <<>>],
      [kind |-> "companies", exact_matches |-> <<>>,
       fuzzy_matches |-> << <<Rat(80, 100), IdentityRecord(CIK_PLAIN, "FUZZY")>>,
                            <<Rat(78, 100), IdentityRecord(CIK_NOT_NUMERIC, "FUZZY")>> >>],
      [kind |-> "companies", exact_matches |-> <<>>,
       fuzzy_matches |-> << <<Rat(60, 100), IdentityRecord(CIK_PLAIN, "FUZZY")>>,
                            <<Rat(80, 100),
                              IdentityRecord(CIK_NON_DECIMAL_DIGITS, "FUZZY")>> >>] }

Facts(net_income, operating_cashflow, long_term_debt, shares_outstanding, interest_expense, operating_income) ==
    [kind |-> "facts", net_income |-> net_income, period_complete |-> TRUE,
     operating_cashflow |-> operating_cashflow, capex |-> None,
     cash |-> Int2Rat(50), long_term_debt |-> long_term_debt, current_debt |-> None,
     shares_outstanding |-> shares_outstanding, shares_source_note |-> "exact_period",
     interest_expense |-> interest_expense, operating_income |-> operating_income]

CompanyFactsFeeds ==
    { [kind |-> "not_found"],
      Facts(None, None, None, None, None, None),
      Facts(Int2Rat(100), None, None, Int2Rat(3), None, None),
      \* no debt reported, interest coverage 12
      Facts(Int2Rat(100), Int2Rat(120), None, Int2Rat(3), Int2Rat(-10), Int2Rat(120)),
      \* interest expense reported without operating income
      Facts(Int2Rat(100), Int2Rat(120), Int2Rat(900), Int2Rat(3), Int2Rat(10), None),
      \* indebted, interest coverage 12
      Facts(Int2Rat(100), Int2Rat(120), Int2Rat(900), Int2Rat(3), Int2Rat(10), Int2Rat(120)),
      \* neither interest expense nor coverage
      Facts(Int2Rat(100), Int2Rat(80), None, Int2Rat(3), None, Int2Rat(120)),
      \* a loss
      Facts(Int2Rat(-20), Int2Rat(80), None, Int2Rat(3), Int2Rat(10), Int2Rat(120)),
      \* no shares outstanding
      Facts(Int2Rat(100), Int2Rat(120), None, Zero, Int2Rat(10), Int2Rat(120)) }

SubmissionsFeeds ==
    { [kind |-> "http_error"],
      [kind |-> "submissions", company_name |-> "Apple Inc.", sic |-> "3571",
       sic_description |-> "Electronic Computers", entity_type |-> "operating",
       business_description |-> Str("The Company designs smartphones."),
       risk_factors |-> None],
      [kind |-> "submissions", company_name |-> "Apple Inc.", sic |-> "3571",
       sic_description |-> "Electronic Computers", entity_type |-> "operating",
       business_description |-> None, risk_factors |-> None],
      [kind |-> "submissions", company_name |-> "", sic |-> "",
       sic_description |-> "", entity_type |-> "",
       business_description |-> None, risk_factors |-> None] }

Gate1Replies ==
    { [kind |-> "raise"],
      [kind |-> "reply",
       payload |-> [business_summary |-> "Designs and sells consumer electronics.",
                    key_risk_categories |-> <<"Supply chain", "">>,
                    geographic_exposure |-> "GLOBAL",
                    business_complexity |-> "low"]],
      [kind |-> "reply",
       payload |-> [business_summary |-> "", key_risk_categories |-> <<>>,
                    geographic_exposure |-> "EVERYWHERE",
                    business_complexity |-> "EXTREME"]] }

Bars(prev_close, last_close, last_volume, volatility_annualized, correlation, yes_price, no_price) ==
    [kind |-> "bars", prev_close |-> prev_close, prev_source |-> "POLYGON_DIRECT",
     flow_bars |-> [last_close |-> last_close, prev_close |-> Int2Rat(300),
                    last_volume |-> last_volume, avg_volume |-> Int2Rat(500)],
     volatility_annualized |-> volatility_annualized, max_drawdown |-> Rat(15, 100),
     correlation |-> correlation, yes_price |-> yes_price, no_price |-> no_price]

MarketFeeds ==
    { [kind |-> "no_key"],
      Bars(None, Int2Rat(300), Int2Rat(900), Rat(20, 100), None, None, None),
      \* cheap, active, with prediction-market prices
      Bars(Int2Rat(5), Int2Rat(310), Int2Rat(900), Rat(20, 100), Rat(-30, 100),
           Rat(60, 100), Rat(40, 100)),
      \* cheap, flat and quiet, correlation not computable
      Bars(Int2Rat(5), Int2Rat(300), Int2Rat(400), Rat(60, 100), None, None, None),
      \* dear
      Bars(Int2Rat(700), Int2Rat(290), Int2Rat(900), Rat(35, 100), Rat(90, 100),
           Rat(40, 100), Rat(60, 100)) }

SeriesFeeds ==
    { [kind |-> "http_error"],
      [kind |-> "observations", dff |-> None, nfci |-> Rat(-5, 10)],
      [kind |-> "observations", dff |-> Int2Rat(3), nfci |-> Rat(-5, 10)],
      [kind |-> "observations", dff |-> Int2Rat(8), nfci |-> Rat(75, 100)],
      [kind |-> "observations", dff |-> Int2Rat(101), nfci |-> Zero] }


\* variant: a stage that returned a fatal result is invoked again
Record_with_retry(key, result, listed, next) ==
    /\ outputs' = (key :> result) @@ outputs
    /\ gate_results' = IF listed THEN Append(gate_results, result) ELSE gate_results
    /\ invoked' = Append(invoked, key)
    /\ response' = response
    /\ pc' = IF _is_fatal(result) THEN pc ELSE next

\* outputs[key] = result, with the result also listed in gate_results when the
\* stage is a gate; a fatal result ends the run with _pipeline_error
Record(key, result, listed, next) ==
    /\ outputs' = (key :> result) @@ outputs
    /\ gate_results' = IF listed THEN Append(gate_results, result) ELSE gate_results
    /\ invoked' = Append(invoked, key)
    /\ IF _is_fatal(result)
       THEN /\ response' = _pipeline_error(key, result, outputs', gate_results')
            /\ pc' = "done"
       ELSE /\ response' = response
            /\ pc' = next

\* lines 70-81
RunIdentity ==
    /\ call = NoCall
    /\ pc = "start"
    /\ \E company_input \in CompanyInputs, sec_tickers \in SecTickerFeeds :
          Record("identity", resolve_identity(company_input, sec_tickers), TRUE, "sec")
    /\ UNCHANGED <<config_vars, call, pipeline_notes, gate1_data, handed>>

\* lines 86-89
FetchSec ==
    /\ pc = "sec"
    /\ \E companyfacts \in CompanyFactsFeeds :
          Record("sec", fetch_sec_data(outputs.identity.data.cik, companyfacts),
                 FALSE, "business_context")
    /\ UNCHANGED <<config_vars, call, pipeline_notes, gate1_data, handed>>

\* lines 92-119: the try block around the business-context fetch and gate 1
RunBusinessContext ==
    /\ pc = "business_context"
    /\ \E submissions \in SubmissionsFeeds, llm \in LlmChoices(Gate1Replies) :
          LET biz_ctx_result ==
                  fetch_sec_business_context(outputs.identity.data.cik, submissions)
              biz == biz_ctx_result.data
              gate1_result ==
                  analyze_business_context(biz.company_name, biz.sic_description,
                                           biz.business_description, biz.risk_factors,
                                           biz.entity_type, biz.sic, llm)
          IN  IF "raised" \in DOMAIN biz_ctx_result
              THEN /\ pipeline_notes' =
                          Append(pipeline_notes, "Gate 1 failed (non-blocking)")
                   /\ invoked' = Append(invoked, "sec_business_context")
                   /\ UNCHANGED <<outputs, gate_results, gate1_data>>
              ELSE IF biz_ctx_result.status \in {"OK", "PARTIAL"}
              THEN /\ outputs' = ("gate1" :> gate1_result) @@
                                 ("sec_business_context" :> biz_ctx_result) @@ outputs
                   /\ gate_results' = Append(gate_results, gate1_result)
                   /\ gate1_data' = IF gate1_result.status \in {"OK", "PARTIAL"}
                                    THEN gate1_result.data ELSE gate1_data
                   /\ invoked' = invoked \o <<"sec_business_context", "gate1">>
                   /\ UNCHANGED pipeline_notes
              ELSE /\ outputs' = ("sec_business_context" :> biz_ctx_result) @@ outputs
                   /\ pipeline_notes' =
                          Append(pipeline_notes,
                                 "Gate 1 skipped - SEC business context unavailable")
                   /\ invoked' = Append(invoked, "sec_business_context")
                   /\ UNCHANGED <<gate_results, gate1_data>>
    /\ pc' = "polygon"
    /\ UNCHANGED <<config_vars, call, handed, response>>

\* lines 121-124
FetchPolygon ==
    /\ pc = "polygon"
    /\ \E market \in MarketFeeds :
          Record("polygon", fetch_polygon_data(outputs.identity.data.ticker, market),
                 FALSE, "fred")
    /\ UNCHANGED <<config_vars, call, pipeline_notes, gate1_data, handed>>

\* lines 126-129
FetchFred ==
    /\ pc = "fred"
    /\ \E series \in SeriesFeeds :
          Record("fred", fetch_fred_data(series), FALSE, "gate2")
    /\ UNCHANGED <<config_vars, call, pipeline_notes, gate1_data, handed>>

\* lines 134-145
RunGate2 ==
    /\ pc = "gate2"
    /\ \E llm \in LlmChoices(SupervisorReplies) :
          Record("gate2",
                 calculate_valuation(outputs.polygon.data.market_price,
                                     outputs.sec.data.net_income,
                                     outputs.sec.data.free_cashflow,
                                     outputs.sec.data.total_debt,
                                     outputs.sec.data.cash,
                                     outputs.sec.data.shares_outstanding, llm),
                 TRUE, "gate3")
    /\ UNCHANGED <<config_vars, call, pipeline_notes, gate1_data, handed>>

\* lines 150-164
RunGate3 ==
    /\ pc = "gate3"
    /\ \E llm \in LlmChoices(Gate3Replies) :
          LET polygon == outputs.polygon.data
          IN  Record("gate3",
                     analyze_market_structure(
                         polygon.last_price, polygon.last_volume, polygon.avg_volume,
                         polygon.volume_spike, Str(polygon.price_direction),
                         Str(polygon.flow_signal), polygon.yes_price, polygon.no_price,
                         Str(Get(polygon, "macro_signal", outputs.fred.data.macro_signal)),
                         llm),
                     TRUE, "gate4")
    /\ UNCHANGED <<config_vars, call, pipeline_notes, gate1_data, handed>>


\* lines 169-191.  "if gate1_data" is false for None and for an empty dict.
RunGate4 ==
    /\ pc = "gate4"
    /\ \E llm \in LlmChoices(Gate4Replies) :
          LET sec == outputs.sec.data
              fred == outputs.fred.data
              gate4_business_context ==
                  IF gate1_data # EmptyDict
                  THEN Str(Get(gate1_data, "business_summary", "")) ELSE None
          IN  /\ Record("gate4",
                        assess_impairment_risk(
                            sec.net_income, sec.free_cashflow, sec.cash, sec.total_debt,
                            Get(outputs.gate2.data, "net_debt", None),
                            sec.interest_expense, sec.interest_coverage,
                            sec.shares_outstanding, fred.interest_rate,
                            Str(fred.credit_stress), fred.credit_stress_index,
                            gate4_business_context, llm),
                        TRUE, "gate5")
              /\ handed' = ("gate4" :> gate4_business_context) @@ handed
    /\ UNCHANGED <<config_vars, call, pipeline_notes, gate1_data>>

\* lines 196-211
RunGate5 ==
    /\ pc = "gate5"
    /\ \E llm \in LlmChoices(SizingAgentReplies) :
          LET upstream_reject == _should_suppress_sizing(outputs.gate2, outputs.gate4)
              polygon == outputs.polygon.data
              fred == outputs.fred.data
          IN  /\ pipeline_notes' =
                     IF upstream_reject
                     THEN Append(pipeline_notes,
                                 "Gate 5 sizing suppressed - upstream REJECT detected")
                     ELSE pipeline_notes
              /\ Record("gate5",
                        calculate_position_size(polygon.volatility, polygon.max_drawdown,
                                                fred.interest_rate, Str(fred.credit_stress),
                                                polygon.correlation_index,
                                                upstream_reject, llm),
                        TRUE, "final")
    /\ UNCHANGED <<config_vars, call, gate1_data, handed>>

\* lines 216-268: the verdict, then the response of a completed run
RunFinal ==
    /\ pc = "final"
    /\ LET final_result == aggregate_verdict(outputs.gate2, outputs.gate3,
                                             outputs.gate4, outputs.gate5, gate1_data)
       IN  /\ outputs' = ("final" :> final_result) @@ outputs
           /\ gate_results' = Append(gate_results, final_result)
           /\ invoked' = Append(invoked, "final")
           /\ handed' = ("final" :> gate1_data) @@ handed
           /\ response' =
                  IF _is_fatal(final_result)
                  THEN _pipeline_error("final", final_result, outputs', gate_results')
                  ELSE pipeline_ok(outputs', gate_results', pipeline_notes)
    /\ pc' = "done"
    /\ UNCHANGED <<config_vars, call, pipeline_notes, gate1_data>>

InitPipeline == ConfigInit({DefaultConfig}) /\ call = NoCall /\ RunInit

NextPipeline ==
    \/ RunIdentity
    \/ FetchSec
    \/ RunBusinessContext
    \/ FetchPolygon
    \/ FetchFred
    \/ RunGate2
    \/ RunGate3
    \/ RunGate4
    \/ RunGate5
    \/ RunFinal

SpecPipeline == InitPipeline /\ [][NextPipeline]_vars

-----------------------------------------------------------------------------
(* Properties of calculate_valuation and valuation_policy *)

IsValuationCall == call.fn = "calculate_valuation"

RequiredValuationArgs ==
    <<"market_price", "net_income", "total_debt", "cash", "shares_outstanding">>

Range(seq) == {seq[i] : i \in DOMAIN seq}

AbsentValuationArgs ==
    {name \in Range(RequiredValuationArgs) : IsNone(call.args[name])}

\* The valuation arithmetic of section 4.1 of the specification on the call's
\* arguments, without any rounding.
ExactOwnerEarnings ==
    IF IsNone(call.args.free_cashflow) THEN call.args.net_income
    ELSE RatMin(call.args.net_income, call.args.free_cashflow)

ExactNetDebt == RatSub(call.args.total_debt, call.args.cash)

ExpectedMultiple(net_debt) ==
    IF RatLE(net_debt, Zero) THEN RatAdd(VALUATION_MULTIPLE, Int2Rat(2))
    ELSE VALUATION_MULTIPLE

ExpectedRequiredMargin(net_debt) ==
    IF RatLE(net_debt, Zero)
    THEN RatMax(Rat(20, 100), RatSub(REQUIRED_MARGIN, Rat(5, 100)))
    ELSE REQUIRED_MARGIN

ExactIntrinsicPrice ==
    RatDiv(RatSub(RatMul(ExactOwnerEarnings, ExpectedMultiple(ExactNetDebt)),
                  RatMax(Zero, ExactNetDebt)),
           call.args.shares_outstanding)

ExactMargin ==
    RatDiv(RatSub(ExactIntrinsicPrice, call.args.market_price), ExactIntrinsicPrice)

\* a completed valuation whose intrinsic price is positive
ValuationPositive ==
    /\ IsValuationCall
    /\ call.result.status = "OK"
    /\ ~IsNone(call.result.data.margin_of_safety)

\* C5 as stated: the emitted margin_of_safety equals (intrinsic_price -
\* market_price) / intrinsic_price of the emitted prices exactly, and the
\* emitted pass holds exactly when the emitted margin_of_safety is at least
\* the emitted required_margin.
C5_EmittedExact ==
    (ValuationPositive /\ RatGT(call.result.data.intrinsic_price, Zero)) =>
        LET d == call.result.data
        IN  /\ d.margin_of_safety =
                   RatDiv(RatSub(d.intrinsic_price, d.market_price), d.intrinsic_price)
            /\ d.pass <=> RatGE(d.margin_of_safety, d.required_margin)

\* C5 amended: the margin is computed exactly from the unrounded intrinsic
\* price and the market price passed in, pass holds exactly when that unrounded
\* margin is at least the policy's required margin, and the emitted
\* margin_of_safety, intrinsic_price, market_price and required_margin are
\* these values rounded to 4, 2, 2 and 4 decimal places.
C5_RoundedFromExact ==
    ValuationPositive =>
        LET d == call.result.data
        IN  /\ RatGT(ExactIntrinsicPrice, Zero)
            /\ d.margin_of_safety = round_float(ExactMargin, 4)
            /\ d.pass <=> RatGE(ExactMargin, ExpectedRequiredMargin(ExactNetDebt))
            /\ d.intrinsic_price = round_float(ExactIntrinsicPrice, 2)
            /\ d.market_price = round_float(call.args.market_price, 2)
            /\ d.required_margin =
                   round_float(ExpectedRequiredMargin(ExactNetDebt), 4)

\* a valuation that fails although its emitted margin equals the emitted
\* required margin: the unrounded margin is just below it
C5_Witness ==
    /\ ValuationPositive
    /\ ~call.result.data.pass
    /\ call.result.data.margin_of_safety = call.result.data.required_margin
    /\ RatLT(ExactMargin, ExpectedRequiredMargin(ExactNetDebt))

\* C7: a missing required input gives ERROR VALUATION_MISSING_INPUTS listing
\* exactly the absent names; all five present with shares_outstanding <= 0
\* gives ERROR VALUATION_INVALID_SHARES; otherwise (free_cashflow absent or
\* not) the result is not an ERROR; an ERROR has empty data and confidence 0.
C7_ValuationErrors ==
    IsValuationCall =>
        LET r == call.result
            missing == r.diagnostics.missing_inputs
        IN  /\ AbsentValuationArgs # {} =>
                 /\ r.status = "ERROR"
                 /\ r.error.code = "VALUATION_MISSING_INPUTS"
                 /\ Range(missing) = AbsentValuationArgs
                 /\ Len(missing) = Cardinality(AbsentValuationArgs)
            /\ (AbsentValuationArgs = {}
                  /\ RatLE(call.args.shares_outstanding, Zero)) =>
                 /\ r.status = "ERROR"
                 /\ r.error.code = "VALUATION_INVALID_SHARES"
            /\ (AbsentValuationArgs = {}
                  /\ RatGT(call.args.shares_outstanding, Zero)) =>
                 r.status = "OK"
            /\ r.status = "ERROR" =>
                 /\ r.data = EmptyDict
                 /\ r.confidence = 0

\* two inputs absent, among them not free_cashflow, with a zero debt present
C7_Witness ==
    /\ IsValuationCall
    /\ call.result.status = "ERROR"
    /\ call.result.error.code = "VALUATION_MISSING_INPUTS"
    /\ Cardinality(AbsentValuationArgs) = 2
    /\ call.args.total_debt = Zero

\* C10 as stated: valuation_policy returns (base + 2, max(0.20, base margin -
\* 0.05)) for net_debt <= 0 and the base values otherwise, and the envelope
\* reports exactly these values.
C10_ReportedExact ==
    /\ call.fn = "valuation_policy" =>
         call.result = <<ExpectedMultiple(call.args.net_debt),
                         ExpectedRequiredMargin(call.args.net_debt)>>
    /\ (IsValuationCall /\ call.result.status = "OK") =>
         LET d == call.result.data
         IN  /\ d.required_margin = ExpectedRequiredMargin(ExactNetDebt)
             /\ d.valuation_anchor.required_margin_used =
                    ExpectedRequiredMargin(ExactNetDebt)
             /\ d.valuation_anchor.multiple_used = ExpectedMultiple(ExactNetDebt)

\* C10 amended: valuation_policy returns these values, and the envelope reports
\* them rounded to 4 decimal places.
C10_ReportedRounded ==
    /\ call.fn = "valuation_policy" =>
         call.result = <<ExpectedMultiple(call.args.net_debt),
                         ExpectedRequiredMargin(call.args.net_debt)>>
    /\ (IsValuationCall /\ call.result.status = "OK") =>
         LET d == call.result.data
         IN  /\ d.required_margin =
                    round_float(ExpectedRequiredMargin(ExactNetDebt), 4)
             /\ d.valuation_anchor.required_margin_used =
                    round_float(ExpectedRequiredMargin(ExactNetDebt), 4)
             /\ d.valuation_anchor.multiple_used =
                    round_float(ExpectedMultiple(ExactNetDebt), 4)

\* a valuation with net debt exactly zero under a margin of more than four
\* decimals
C10_Witness ==
    /\ IsValuationCall
    /\ call.result.status = "OK"
    /\ ExactNetDebt = Zero
    /\ call.result.data.required_margin # ExpectedRequiredMargin(ExactNetDebt)

-----------------------------------------------------------------------------
(* The valuation band and the arithmetic behind it *)

ValuationOK == IsValuationCall /\ call.result.status = "OK"

\* the band of section 4.1 for a margin
BandOf(margin) ==
    IF RatGE(margin, Rat(50, 100)) THEN "DEEP_VALUE"
    ELSE IF RatGE(margin, Zero) THEN "FAIR"
    ELSE "EXPENSIVE"

\* C11 as stated, on the returned data: valuation_band is IMPAIRED exactly when
\* the returned intrinsic_price is <= 0, exactly when margin_of_safety is
\* null, and then pass is false; otherwise the band is DEEP_VALUE, FAIR or
\* EXPENSIVE by the returned margin_of_safety.
C11_BandOfReturned ==
    ValuationOK =>
        LET d == call.result.data
        IN  /\ (d.valuation_band = "IMPAIRED") <=> RatLE(d.intrinsic_price, Zero)
            /\ (d.valuation_band = "IMPAIRED") <=> IsNone(d.margin_of_safety)
            /\ d.valuation_band = "IMPAIRED" => ~d.pass
            /\ ~IsNone(d.margin_of_safety) =>
                   d.valuation_band = BandOf(d.margin_of_safety)

\* C11 amended: the same on the unrounded values. The band is IMPAIRED exactly
\* when the unrounded intrinsic price is <= 0, exactly when margin_of_safety
\* is null, and then pass is false and no margin is computed; otherwise the
\* band is that of the unrounded margin, and the returned margin_of_safety and
\* intrinsic_price are the unrounded ones rounded to 4 and 2 decimal places.
C11_BandOfExact ==
    ValuationOK =>
        LET d == call.result.data
            impaired == RatLE(ExactIntrinsicPrice, Zero)
        IN  /\ (d.valuation_band = "IMPAIRED") <=> impaired
            /\ impaired <=> IsNone(d.margin_of_safety)
            /\ impaired => ~d.pass
            /\ d.intrinsic_price = round_float(ExactIntrinsicPrice, 2)
            /\ ~impaired =>
                   /\ d.valuation_band = BandOf(ExactMargin)
                   /\ d.margin_of_safety = round_float(ExactMargin, 4)

\* a margin of 299.99/600 is returned as 0.5 with the band FAIR
C11_Witness ==
    /\ ValuationOK
    /\ call.result.data.margin_of_safety = Rat(50, 100)
    /\ RatLT(ExactMargin, Rat(50, 100))
    /\ call.result.data.valuation_band = "FAIR"

\* an impaired valuation
C11_ImpairedCall ==
    /\ ValuationOK
    /\ call.result.data.valuation_band = "IMPAIRED"
    /\ IsNone(call.result.data.margin_of_safety)
    /\ ~call.result.data.pass


ExactEffectiveNetDebt == RatMax(Zero, ExactNetDebt)

ExactIntrinsicEquity ==
    RatSub(RatMul(ExactOwnerEarnings, ExpectedMultiple(ExactNetDebt)),
           ExactEffectiveNetDebt)

\* the worked example of section 4.1
IsWorkedValuation ==
    /\ IsValuationCall
    /\ VALUATION_MULTIPLE = Int2Rat(10)
    /\ call.args = [market_price |-> Int2Rat(5), net_income |-> Int2Rat(100),
                    free_cashflow |-> Int2Rat(80), total_debt |-> Int2Rat(50),
                    cash |-> Int2Rat(70), shares_outstanding |-> Int2Rat(10)]

C12_RoundedPrice ==
    /\ ValuationOK
    /\ call.result.data.intrinsic_equity = Int2Rat(1000)
    /\ call.args.shares_outstanding = Int2Rat(3)
    /\ call.result.data.intrinsic_price = Rat(33333, 100)

-----------------------------------------------------------------------------
(* Properties of calculate_position_size *)

IsSizingCall == call.fn = "calculate_position_size"

SizingArgNames ==
    {"volatility", "max_drawdown", "interest_rate", "credit_stress",
     "correlation_index"}

AbsentSizingArgs == {name \in SizingArgNames : IsNone(call.args[name])}

\* C6: an OK sizing reports a size in [1.0, 10.0], and its binding_constraint
\* is the first factor, in the order VOLATILITY, DRAWDOWN, CORRELATION, MACRO,
\* whose value is the minimum of the four factors.
C6_SizeBoundedAndBinding ==
    (IsSizingCall /\ call.result.status = "OK") =>
        LET d == call.result.data
            f == d.factors
        IN  /\ RatLE(Int2Rat(1), d.maximum_position_size)
            /\ RatLE(d.maximum_position_size, Int2Rat(10))
            /\ \E i \in 1 .. 4 :
                 /\ d.binding_constraint = FACTOR_PRECEDENCE[i]
                 /\ \A j \in 1 .. 4 :
                        RatLE(f[FACTOR_PRECEDENCE[i]], f[FACTOR_PRECEDENCE[j]])
                 /\ \A j \in 1 .. (i - 1) :
                        RatGT(f[FACTOR_PRECEDENCE[j]], f[FACTOR_PRECEDENCE[i]])

\* three factors tie at the minimum 0.55, the macro factor is 0.70, and the
\* first of the three is reported
C6_Witness ==
    /\ IsSizingCall
    /\ call.result.status = "OK"
    /\ call.result.data.factors.VOLATILITY = Rat(55, 100)
    /\ call.result.data.factors.DRAWDOWN = Rat(55, 100)
    /\ call.result.data.factors.CORRELATION = Rat(55, 100)
    /\ call.result.data.factors.MACRO = Rat(70, 100)
    /\ call.result.data.binding_constraint = "VOLATILITY"

SizingSkipped ==
    /\ call.result.status = "SKIPPED"
    /\ IsNone(call.result.data.maximum_position_size)
    /\ call.result.confidence = 0
    /\ call.result.data.confidence = 0

SizingOKNumeric ==
    /\ call.result.status = "OK"
    /\ ~IsNone(call.result.data.maximum_position_size)

\* C8 as stated: sizing is SKIPPED (null size, confidence 0) exactly when
\* upstream_reject is true, or an input is absent, or credit_stress is not one
\* of LOW, MEDIUM, HIGH, or interest_rate > 1.0; otherwise it is OK with a
\* numeric size.
C8_SkippedExactly ==
    IsSizingCall =>
        IF \/ call.args.upstream_reject
           \/ AbsentSizingArgs # {}
           \/ call.args.credit_stress[1] \notin {"LOW", "MEDIUM", "HIGH"}
           \/ RatGT(call.args.interest_rate, Int2Rat(1))
        THEN SizingSkipped
        ELSE SizingOKNumeric

\* C8 amended: the same, with credit_stress compared after upper-casing, so
\* that a lower-case "low" is accepted.
C8_SkippedExactlyUpperCased ==
    IsSizingCall =>
        IF \/ call.args.upstream_reject
           \/ AbsentSizingArgs # {}
           \/ Upper(call.args.credit_stress[1]) \notin {"LOW", "MEDIUM", "HIGH"}
           \/ RatGT(call.args.interest_rate, Int2Rat(1))
        THEN SizingSkipped
        ELSE SizingOKNumeric

\* sizing of a lower-case credit_stress at an interest rate of exactly 1.0
C8_Witness ==
    /\ IsSizingCall
    /\ ~call.args.upstream_reject
    /\ call.args.credit_stress = Str("low")
    /\ call.args.interest_rate = Int2Rat(1)
    /\ call.result.status = "OK"
    /\ call.result.data.credit_stress = "LOW"

-----------------------------------------------------------------------------
(* The size and the factors of calculate_position_size *)

SizingOK == IsSizingCall /\ call.result.status = "OK"

\* clamp(10.0 * VOLATILITY * DRAWDOWN * CORRELATION * MACRO, 1.0, 10.0)
ClampedProduct(f) ==
    LET product == RatMul(RatMul(RatMul(RatMul(Int2Rat(10), f.VOLATILITY), f.DRAWDOWN),
                                 f.CORRELATION), f.MACRO)
    IN  RatMax(Int2Rat(1), RatMin(product, Int2Rat(10)))

\* the worked example of section 4.2
IsWorkedSizing ==
    /\ IsSizingCall
    /\ call.args = [volatility |-> Rat(60, 100), max_drawdown |-> Rat(50, 100),
                    interest_rate |-> Rat(8, 100), credit_stress |-> Str("HIGH"),
                    correlation_index |-> Rat(90, 100), upstream_reject |-> FALSE]

\* C13 as stated: the reported maximum_position_size equals the clamped
\* product of the four reported factors.
C13_SizeIsClampedProduct ==
    SizingOK =>
        call.result.data.maximum_position_size = ClampedProduct(call.result.data.factors)

\* C13 amended: the reported maximum_position_size is the clamped product of
\* the four reported factors rounded to one decimal place: a multiple of 0.1
\* within 0.05 of it, in [1.0, 10.0].  In the worked example the factors are
\* 0.55, 0.55, 0.55, 0.70, the reported size is 1.2 and binding_constraint is
\* VOLATILITY.
C13_SizeIsRoundedProduct ==
    /\ SizingOK =>
          LET d == call.result.data
              exact == ClampedProduct(d.factors)
              tenths == RatMul(d.maximum_position_size, Int2Rat(10))
          IN  /\ tenths[2] = 1
              /\ RatLE(RatSub(exact, Rat(5, 100)), d.maximum_position_size)
              /\ RatLE(d.maximum_position_size, RatAdd(exact, Rat(5, 100)))
              /\ RatLE(Int2Rat(1), d.maximum_position_size)
              /\ RatLE(d.maximum_position_size, Int2Rat(10))
    /\ IsWorkedSizing =>
          LET d == call.result.data
          IN  /\ call.result.status = "OK"
              /\ d.factors = [VOLATILITY |-> Rat(55, 100), DRAWDOWN |-> Rat(55, 100),
                              CORRELATION |-> Rat(55, 100), MACRO |-> Rat(70, 100)]
              /\ ClampedProduct(d.factors) = Rat(1164625, 1000000)
              /\ d.maximum_position_size = Rat(12, 10)
              /\ d.binding_constraint = "VOLATILITY"

\* the worked example, sized at 1.2
C13_Witness ==
    /\ IsWorkedSizing
    /\ call.result.data.maximum_position_size = Rat(12, 10)

\* an exact product of 5.95 reported as 5.9: 0.85 is multiplied before 0.70
C13_HalfwayBelow ==
    /\ SizingOK
    /\ ClampedProduct(call.result.data.factors) = Rat(595, 100)
    /\ call.result.data.maximum_position_size = Rat(59, 10)

\* and as 6.0 when 0.70 is multiplied before 0.85
C13_HalfwayAbove ==
    /\ SizingOK
    /\ ClampedProduct(call.result.data.factors) = Rat(595, 100)
    /\ call.result.data.maximum_position_size = Int2Rat(6)


\* the step table of section 4.2 with inclusive upper boundaries
Step(x, b1, b2, b3, v1, v2, v3, v4) ==
    IF RatLE(x, b1) THEN v1
    ELSE IF RatLE(x, b2) THEN v2
    ELSE IF RatLE(x, b3) THEN v3
    ELSE v4

TableVolatility(x) ==
    Step(x, Rat(20, 100), Rat(35, 100), Rat(50, 100),
         Int2Rat(1), Rat(85, 100), Rat(70, 100), Rat(55, 100))

TableDrawdown(x) ==
    Step(x, Rat(15, 100), Rat(30, 100), Rat(45, 100),
         Int2Rat(1), Rat(85, 100), Rat(70, 100), Rat(55, 100))

TableCorrelation(x) ==
    Step(x, Rat(30, 100), Rat(60, 100), Rat(80, 100),
         Int2Rat(1), Rat(85, 100), Rat(70, 100), Rat(55, 100))

TableMacro(rate, credit_stress) ==
    RatMin(Step(rate, Rat(3, 100), Rat(5, 100), Rat(7, 100),
                Int2Rat(1), Rat(90, 100), Rat(80, 100), Rat(70, 100)),
           CASE credit_stress = "LOW" -> Int2Rat(1)
             [] credit_stress = "MEDIUM" -> Rat(85, 100)
             [] credit_stress = "HIGH" -> Rat(70, 100))

Numbers(inputs) == inputs \ {None}

\* C14: the four factors of an OK sizing are those of the fixed table with
\* inclusive upper boundaries, each lies in (0, 1], and each factor function
\* is non-increasing: no larger input of the grid gives a larger factor than
\* the one reported.
C14_FactorTables ==
    SizingOK =>
        LET a == call.args
            f == call.result.data.factors
        IN  /\ f.VOLATILITY = TableVolatility(a.volatility)
            /\ f.DRAWDOWN = TableDrawdown(a.max_drawdown)
            /\ f.CORRELATION = TableCorrelation(a.correlation_index)
            /\ f.MACRO = TableMacro(a.interest_rate, call.result.data.credit_stress)
            /\ \A name \in DOMAIN f : RatGT(f[name], Zero) /\ RatLE(f[name], Int2Rat(1))
            /\ \A x \in Numbers(VolatilityInputs) :
                   RatLE(a.volatility, x) => RatLE(_volatility_factor(x), f.VOLATILITY)
            /\ \A x \in Numbers(DrawdownInputs) :
                   RatLE(a.max_drawdown, x) => RatLE(_drawdown_factor(x), f.DRAWDOWN)
            /\ \A x \in Numbers(CorrelationInputs) :
                   RatLE(a.correlation_index, x) =>
                       RatLE(_correlation_factor(x), f.CORRELATION)
            /\ \A x \in Numbers(InterestRateInputs) :
                   RatLE(a.interest_rate, x) =>
                       RatLE(_macro_factor(x, call.result.data.credit_stress), f.MACRO)

\* every input on a boundary of its table: 0.35, 0.30, 0.60 and 0.07
C14_Witness ==
    /\ SizingOK
    /\ call.args.volatility = Rat(35, 100)
    /\ call.args.max_drawdown = Rat(30, 100)
    /\ call.args.correlation_index = Rat(60, 100)
    /\ call.args.interest_rate = Rat(7, 100)
    /\ call.args.credit_stress = Str("LOW")
    /\ call.result.data.factors =
           [VOLATILITY |-> Rat(85, 100), DRAWDOWN |-> Rat(85, 100),
            CORRELATION |-> Rat(85, 100), MACRO |-> Rat(80, 100)]

-----------------------------------------------------------------------------
(* Properties of aggregate_verdict *)

IsVerdictCall == call # NoCall /\ call.fn = "aggregate_verdict"

\* the data of a payload: the envelope's data, or the raw payload itself
PayloadData(payload) == IF "data" \in DOMAIN payload THEN payload.data ELSE payload

\* the payload reports a valuation result, a classification or a risk level
HasPass(payload) ==
    "pass" \in DOMAIN PayloadData(payload) \/ "passes" \in DOMAIN PayloadData(payload)

PassOf(payload) ==
    IF "pass" \in DOMAIN PayloadData(payload) THEN PayloadData(payload).pass
    ELSE PayloadData(payload).passes

HasField(payload, key) == key \in DOMAIN PayloadData(payload)

CLAIMED_RISK_LEVELS == {"LOW", "MEDIUM", "HIGH", "UNDETERMINED"}

\* the precedence chain as the specification words it
ChainVerdict(valuation_passes, risk_level) ==
    IF ~valuation_passes THEN "REJECT"
    ELSE IF risk_level = "HIGH" THEN "REJECT"
    ELSE IF risk_level = "UNDETERMINED" THEN "WATCH"
    ELSE IF risk_level = "LOW" THEN "INVEST"
    ELSE "WATCH"

\* C2: for every valuation pass in {true, false} and impairment risk_level in
\* {LOW, MEDIUM, HIGH, UNDETERMINED}, with any market-structure payload that
\* carries a classification and any sizing payload, aggregate_verdict returns
\* OK with the verdict of the first matching rule of the chain (REJECT when
\* pass is false whatever the risk level, else REJECT for HIGH, WATCH for
\* UNDETERMINED, INVEST for LOW, WATCH for MEDIUM); every verdict returned is
\* one of INVEST, WATCH, REJECT.
C2_VerdictChain ==
    IsVerdictCall =>
        /\ (/\ HasPass(call.args.gate2_output)
            /\ HasField(call.args.gate3_output, "classification")
            /\ HasField(call.args.gate4_output, "risk_level")
            /\ PayloadData(call.args.gate4_output).risk_level \in CLAIMED_RISK_LEVELS)
           => /\ call.result.status = "OK"
              /\ call.result.data.verdict =
                     ChainVerdict(PassOf(call.args.gate2_output),
                                  PayloadData(call.args.gate4_output).risk_level)
        /\ call.result.status = "OK"
           => call.result.data.verdict \in {"INVEST", "WATCH", "REJECT"}

\* a failed valuation with LOW impairment risk is rejected
C2_Witness ==
    /\ IsVerdictCall
    /\ HasPass(call.args.gate2_output) /\ ~PassOf(call.args.gate2_output)
    /\ HasField(call.args.gate4_output, "risk_level")
    /\ PayloadData(call.args.gate4_output).risk_level = "LOW"
    /\ HasField(call.args.gate3_output, "classification")
    /\ call.result.status = "OK"
    /\ call.result.data.verdict = "REJECT"


-----------------------------------------------------------------------------
(* The market-structure classification in aggregate_verdict *)

MARKET_CLASSIFICATIONS == {"TAILWIND", "NEUTRAL", "HEADWIND", "NO_RELEVANT_DATA_FOUND"}

VerdictOK == IsVerdictCall /\ call.result.status = "OK"

\* the classification the call's gate 3 argument carries, None when absent
ClassificationOf(gate3_output) == Opt(_extract_gate_parts(gate3_output)[1], "classification")

\* the same gate 3 argument with another classification and nothing else changed
WithClassification(gate3_output, classification) ==
    IF "data" \in DOMAIN gate3_output
    THEN [gate3_output EXCEPT !.data.classification = classification]
    ELSE [gate3_output EXCEPT !.classification = classification]

\* the call repeated with another classification
Reclassified(classification) ==
    aggregate_verdict(call.args.gate2_output,
                      WithClassification(call.args.gate3_output, classification),
                      call.args.gate4_output, call.args.gate5_output,
                      call.args.gate1_output)

ClassifiedCall ==
    /\ IsVerdictCall
    /\ \E c \in MARKET_CLASSIFICATIONS : ClassificationOf(call.args.gate3_output) = <<c>>

Except(d, keys) == [k \in DOMAIN d \ keys |-> d[k]]

SamePositionSize(d1, d2) ==
    /\ ("max_position_size" \in DOMAIN d1) = ("max_position_size" \in DOMAIN d2)
    /\ "max_position_size" \in DOMAIN d1 => d1.max_position_size = d2.max_position_size

\* the fields of the data that show the classification
CLASSIFICATION_FIELDS ==
    {"confidence", "confidence_score", "summary", "decision_summary", "risk_notes",
     "market_classification", "gate_summary"}

\* C15 as claimed: between two calls that differ only in the classification,
\* verdict and max_position_size are identical and nothing of the data
\* differs but confidence, summary and risk_notes.
C15_OnlyThreeFieldsChange ==
    ClassifiedCall =>
        \A c \in MARKET_CLASSIFICATIONS :
            LET r1 == call.result
                r2 == Reclassified(c)
            IN  /\ r1.status = r2.status
                /\ r1.status = "OK" =>
                       /\ r1.data.verdict = r2.data.verdict
                       /\ SamePositionSize(r1.data, r2.data)
                       /\ Except(r1.data, {"confidence", "summary", "risk_notes"})
                              = Except(r2.data, {"confidence", "summary", "risk_notes"})

\* C15: between two calls that differ only in the classification, the status,
\* the verdict, the one-liner and the presence and value of max_position_size
\* are identical; the data differs at most in confidence, confidence_score,
\* summary, decision_summary, risk_notes, market_classification and
\* gate_summary.gate3_market_structure, the envelope at most in its data and
\* confidence, and the confidence only when one of the two is HEADWIND.
C15_ClassificationIsNotBinding ==
    ClassifiedCall =>
        \A c \in MARKET_CLASSIFICATIONS :
            LET r1 == call.result
                r2 == Reclassified(c)
            IN  /\ r1.status = r2.status
                /\ r1.status # "OK" => r1 = r2
                /\ r1.status = "OK" =>
                       /\ r1.data.verdict = r2.data.verdict
                       /\ SamePositionSize(r1.data, r2.data)
                       /\ Except(r1.data, CLASSIFICATION_FIELDS)
                              = Except(r2.data, CLASSIFICATION_FIELDS)
                       /\ Except(r1.data.gate_summary, {"gate3_market_structure"})
                              = Except(r2.data.gate_summary, {"gate3_market_structure"})
                       /\ Except(r1, {"data", "confidence"})
                              = Except(r2, {"data", "confidence"})
                       /\ (ClassificationOf(call.args.gate3_output) # <<"HEADWIND">>
                           /\ c # "HEADWIND") =>
                              r1.data.confidence = r2.data.confidence

\* an INVEST call with a size attached whose confidence a HEADWIND lowers
C15_Witness ==
    /\ VerdictOK
    /\ ClassificationOf(call.args.gate3_output) = <<"TAILWIND">>
    /\ call.result.data.verdict = "INVEST"
    /\ "max_position_size" \in DOMAIN call.result.data
    /\ Reclassified("HEADWIND").data.confidence < call.result.data.confidence
    /\ Reclassified("HEADWIND").data.verdict = "INVEST"
    /\ Reclassified("HEADWIND").data.max_position_size = call.result.data.max_position_size


\* the sizing argument is SKIPPED, by its envelope status or by its data
SizingArgSkipped(gate5_output) ==
    \/ _extract_gate_parts(gate5_output)[3] = "SKIPPED"
    \/ Upper(Get(_extract_gate_parts(gate5_output)[1], "status", "")) = "SKIPPED"

\* the call repeated with another sizing argument
Resized(gate5_output) ==
    aggregate_verdict(call.args.gate2_output, call.args.gate3_output,
                      call.args.gate4_output, gate5_output, call.args.gate1_output)

\* C16: the data of an OK aggregate_verdict holds max_position_size exactly
\* when the verdict is INVEST and the sizing argument is not SKIPPED, and it
\* is then the sizing argument's maximum_position_size; the status of the
\* result is the same whatever sizing argument is passed, a SKIPPED one
\* included.
C16_SizeOnlyOnInvestNotSkipped ==
    IsVerdictCall =>
        LET data == call.result.data
            gate5_output == call.args.gate5_output
            gate5_data == _extract_gate_parts(gate5_output)[1]
        IN  /\ call.result.status = "OK" =>
                   /\ "max_position_size" \in DOMAIN data
                          <=> (data.verdict = "INVEST" /\ ~SizingArgSkipped(gate5_output))
                   /\ "max_position_size" \in DOMAIN data =>
                          data.max_position_size = gate5_data.maximum_position_size
            /\ \A other \in Gate5Payloads : Resized(other).status = call.result.status
            /\ call.result.status = "ERROR" =>
                   "gate5_output.maximum_position_size"
                       \notin Range(call.result.diagnostics.missing_inputs)

\* an INVEST with the size of an OK sizing envelope attached
C16_Witness ==
    /\ VerdictOK
    /\ call.result.data.verdict = "INVEST"
    /\ "data" \in DOMAIN call.args.gate5_output
    /\ call.args.gate5_output.status = "OK"
    /\ call.result.data.max_position_size = call.args.gate5_output.data.maximum_position_size

\* an INVEST on a SKIPPED sizing envelope: OK, nothing attached
C16_InvestSkippedSizing ==
    /\ VerdictOK
    /\ call.result.data.verdict = "INVEST"
    /\ "data" \in DOMAIN call.args.gate5_output
    /\ call.args.gate5_output.status = "SKIPPED"
    /\ "max_position_size" \notin DOMAIN call.result.data

\* a REJECT on an OK sizing envelope: nothing attached
C16_RejectSizedEnvelope ==
    /\ VerdictOK
    /\ call.result.data.verdict = "REJECT"
    /\ "data" \in DOMAIN call.args.gate5_output
    /\ call.args.gate5_output.status = "OK"
    /\ "max_position_size" \notin DOMAIN call.result.data


-----------------------------------------------------------------------------
(* The confidence of aggregate_verdict *)

\* the four envelopes or payloads the call was given, gate 2 to gate 5
UpstreamArguments ==
    <<call.args.gate2_output, call.args.gate3_output, call.args.gate4_output,
      call.args.gate5_output>>

ReportsMissingInputs(output) ==
    /\ "diagnostics" \in DOMAIN output
    /\ "data" \in DOMAIN output
    /\ "missing_inputs" \in DOMAIN output.diagnostics
    /\ Len(output.diagnostics.missing_inputs) > 0

ArgMarginOfSafety ==
    Get(_extract_gate_parts(call.args.gate2_output)[1], "margin_of_safety", None)

ArgRiskLevel == Upper(_extract_gate_parts(call.args.gate4_output)[1].risk_level)

ArgClassification == Upper(_extract_gate_parts(call.args.gate3_output)[1].classification)

DeeplyNegativeMargin ==
    ArgMarginOfSafety # None /\ RatLT(ArgMarginOfSafety, Int2Rat(-1))

AnyUpstreamMissing == \E i \in 1 .. 4 : ReportsMissingInputs(UpstreamArguments[i])

AdditiveConfidence ==
    LET sum == 50 + (IF DeeplyNegativeMargin THEN 20 ELSE 0)
                  + (IF ArgRiskLevel = "LOW" THEN 10 ELSE 0)
                  - (IF ArgClassification = "HEADWIND" THEN 10 ELSE 0)
                  - (IF AnyUpstreamMissing THEN 10 ELSE 0)
    IN  IF sum < 0 THEN 0 ELSE IF sum > 100 THEN 100 ELSE sum

\* C17: the confidence of an OK aggregate_verdict is 50, plus 20 for a margin
\* of safety below -1.0, plus 10 for a LOW impairment risk, minus 10 for a
\* HEADWIND classification, minus 10 when one of the four upstream envelopes
\* reports missing inputs, clamped to [0, 100]; the envelope's confidence is
\* the data's.
C17_AdditiveConfidence ==
    VerdictOK =>
        /\ call.result.data.confidence = AdditiveConfidence
        /\ call.result.confidence = call.result.data.confidence

\* all four adjustments at once: 50 + 20 + 10 - 10 - 10
C17_Witness ==
    /\ VerdictOK
    /\ DeeplyNegativeMargin
    /\ ArgRiskLevel = "LOW"
    /\ ArgClassification = "HEADWIND"
    /\ AnyUpstreamMissing
    /\ call.result.confidence = 60

\* missing inputs reported by the sizing envelope alone
C17_OnlySizingMissing ==
    /\ VerdictOK
    /\ ReportsMissingInputs(call.args.gate5_output)
    /\ \A i \in 1 .. 3 : ~ReportsMissingInputs(UpstreamArguments[i])
    /\ ~DeeplyNegativeMargin
    /\ ArgRiskLevel = "LOW"
    /\ ArgClassification = "TAILWIND"
    /\ call.result.confidence = 50

-----------------------------------------------------------------------------
(* Properties of run_pipeline *)

\* the order in which run_pipeline writes the keys of outputs
STAGE_ORDER ==
    <<"identity", "sec", "sec_business_context", "gate1", "polygon", "fred",
      "gate2", "gate3", "gate4", "gate5", "final">>

\* the stages after whose ERROR envelope run_pipeline returns _pipeline_error
HALTING_STAGES ==
    {"identity", "sec", "polygon", "fred", "gate2", "gate3", "gate4", "gate5", "final"}

StageIndex(stage) == CHOOSE i \in DOMAIN STAGE_ORDER : STAGE_ORDER[i] = stage

LaterStages(stage) ==
    {STAGE_ORDER[i] : i \in {j \in DOMAIN STAGE_ORDER : j > StageIndex(stage)}}

Returned(stage) == stage \in DOMAIN outputs

Failed(stage) == Returned(stage) /\ outputs[stage].status = "ERROR"

Finished == pc = "done"

\* C1: once one of the stages identity, sec, polygon, fred, gate2, gate3, gate4,
\* gate5, final has returned an ERROR envelope, the run is over with that stage
\* the last one invoked, the response has status ERROR, its failed_stage is
\* that stage, its error is that envelope's error, and it has no key of a
\* later stage.
C1_HaltsAtFirstError ==
    \A stage \in HALTING_STAGES :
        Failed(stage) =>
            /\ Finished
            /\ invoked[Len(invoked)] = stage
            /\ response.status = "ERROR"
            /\ response.failed_stage = stage
            /\ response.error = outputs[stage].error
            /\ LaterStages(stage) \cap DOMAIN response = {}

\* valuation refuses a share count of zero after every fetch has succeeded and
\* gate 1 has run
C1_Witness ==
    /\ Failed("gate2")
    /\ outputs.gate2.error.code = "VALUATION_INVALID_SHARES"
    /\ response.failed_stage = "gate2"
    /\ {"identity", "sec", "gate1", "polygon", "fred"} \subseteq DOMAIN response

\* C3: a run that completes with status OK reports INVEST only if the valuation
\* envelope of the run has pass = true and its impairment envelope has
\* risk_level = LOW; with pass = true and risk_level = UNDETERMINED it reports
\* WATCH.
C3_InvestOnlyOnPassAndLow ==
    (Finished /\ response.status = "OK") =>
        LET verdict == response.metadata.verdict
            passes == response.gate2.data.pass
            risk_level == response.gate4.data.risk_level
        IN  /\ verdict = "INVEST" => (passes /\ risk_level = "LOW")
            /\ (passes /\ risk_level = "UNDETERMINED") => verdict = "WATCH"

\* a completed run that reports INVEST
C3_Witness ==
    /\ Finished
    /\ response.status = "OK"
    /\ response.metadata.verdict = "INVEST"
    /\ response.gate2.data.pass
    /\ response.gate4.data.risk_level = "LOW"

\* a completed run whose valuation passes while impairment is UNDETERMINED
C3_UndeterminedRun ==
    /\ Finished
    /\ response.status = "OK"
    /\ response.gate2.data.pass
    /\ response.gate4.data.risk_level = "UNDETERMINED"


SUPPRESSION_NOTE == "Gate 5 sizing suppressed - upstream REJECT detected"

Noted(note) == \E i \in DOMAIN pipeline_notes : pipeline_notes[i] = note

C4_SizedRun ==
    /\ Returned("gate5")
    /\ outputs.gate2.data.pass
    /\ outputs.gate5.status = "OK"

\* a direct call with the flag set and no sizing input at all
C4_AbsentInputsCall ==
    /\ IsSizingCall
    /\ call.args.upstream_reject
    /\ AbsentSizingArgs = SizingArgNames
    /\ call.result.status = "SKIPPED"

BusinessContextRan == \E i \in DOMAIN invoked : invoked[i] = "sec_business_context"

BusinessContextRaised == BusinessContextRan /\ ~Returned("sec_business_context")

BusinessContextFetchFailed == Failed("sec_business_context")

Gate1Failed == Failed("gate1")

GATE1_NOTES ==
    {"Gate 1 failed (non-blocking)", "Gate 1 skipped - SEC business context unavailable"}

Gate1Noted == \E note \in GATE1_NOTES : Noted(note)

NotHaltedByBusinessContext ==
    (Finished /\ response.status = "ERROR") =>
        response.failed_stage \notin {"sec_business_context", "gate1"}

ContextHandedAbsent ==
    /\ "gate4" \in DOMAIN handed => IsNone(handed.gate4)
    /\ "final" \in DOMAIN handed => IsNone(handed.final)

\* C9 as stated: whenever the business-context fetch returns ERROR, or gate 1
\* returns an ERROR envelope, or either raises, the run is not halted by it, a
\* note about the failure is in pipeline_notes, and the business context handed
\* to the impairment gate and to the verdict is None.
C9_FailureNotedAndAbsent ==
    (BusinessContextRaised \/ BusinessContextFetchFailed \/ Gate1Failed) =>
        /\ NotHaltedByBusinessContext
        /\ Gate1Noted
        /\ ContextHandedAbsent

\* C9, the part that holds: a business-context failure of any of the three
\* kinds does not halt the run and leaves the context handed on as None; the
\* note is written when the fetch returned ERROR or an exception was raised.
C9_NotHaltedContextAbsent ==
    (BusinessContextRaised \/ BusinessContextFetchFailed \/ Gate1Failed) =>
        /\ NotHaltedByBusinessContext
        /\ ContextHandedAbsent
        /\ (BusinessContextRaised \/ BusinessContextFetchFailed) => Gate1Noted

\* a run completed with status OK in which gate 1 returned an ERROR envelope
\* and no note was written
C9_Witness ==
    /\ Finished
    /\ response.status = "OK"
    /\ Gate1Failed
    /\ response.pipeline.notes = <<>>
    /\ IsNone(handed.gate4)
    /\ IsNone(handed.final)

\* a run in which the business-context fetch raised, carried on to the verdict
C9_RaisedRun ==
    /\ Finished
    /\ response.status = "OK"
    /\ BusinessContextRaised
    /\ Noted("Gate 1 failed (non-blocking)")

SpecRunAndSizing == InitPipeline /\ [][NextPipeline \/ NextSizing]_vars


-----------------------------------------------------------------------------
(* The confidence of the pipeline *)

Completed == Finished /\ response.status = "OK"

Halted == Finished /\ response.status = "ERROR"

\* the data of a stage's envelope, empty when the stage has not returned
DataOfStage(stage) == IF Returned(stage) THEN outputs[stage].data ELSE EmptyDict

EnvelopeReportsMissing(stage) ==
    /\ Returned(stage)
    /\ Len(outputs[stage].diagnostics.missing_inputs) > 0

\* the additive rule on the valuation, market-structure and impairment data,
\* with the penalty for missing inputs taken from the given stages
AdditiveRule(penalised) ==
    LET margin_of_safety == Get(DataOfStage("gate2"), "margin_of_safety", None)
        sum == 50 + (IF margin_of_safety # None /\ RatLT(margin_of_safety, Int2Rat(-1))
                     THEN 20 ELSE 0)
                  + (IF Upper(Get(DataOfStage("gate4"), "risk_level", "")) = "LOW"
                     THEN 10 ELSE 0)
                  - (IF Upper(Get(DataOfStage("gate3"), "classification", "")) = "HEADWIND"
                     THEN 10 ELSE 0)
                  - (IF \E stage \in penalised : EnvelopeReportsMissing(stage)
                     THEN 10 ELSE 0)
    IN  IF sum < 0 THEN 0 ELSE IF sum > 100 THEN 100 ELSE sum

\* the stages whose envelope run_pipeline lists in gate_results
LISTED_STAGES == {"identity", "gate1", "gate2", "gate3", "gate4", "gate5", "final"}

\* C18 as claimed: the penalty for missing inputs is that of the three located
\* envelopes, valuation, market structure and impairment.
C18_RuleOnLocatedEnvelopes ==
    Completed => response.pipeline.confidence = AdditiveRule({"gate2", "gate3", "gate4"})

\* C18: when a run returns, completed or halted, pipeline.confidence is the
\* additive rule (base 50, +20 for a margin of safety below -1.0, +10 for a
\* LOW impairment, -10 for a HEADWIND, clamped to [0, 100]) on the data of the
\* valuation, market-structure and impairment envelopes collected so far,
\* with -10 when any envelope listed in gate_results reports missing inputs.
C18_RuleOnCollectedEnvelopes ==
    Finished => response.pipeline.confidence = AdditiveRule(LISTED_STAGES)

\* a completed run whose gate 1 alone reports a missing input: the pipeline's
\* confidence is 10 below the verdict's
C18_Witness ==
    /\ Completed
    /\ EnvelopeReportsMissing("gate1")
    /\ \A stage \in {"gate2", "gate3", "gate4", "gate5"} : ~EnvelopeReportsMissing(stage)
    /\ response.pipeline.confidence = AdditiveRule(LISTED_STAGES)
    /\ response.pipeline.confidence = outputs.final.confidence - 10

\* a run halted at the valuation: the rule on the envelopes collected so far
C18_HaltedAtValuation ==
    /\ Halted
    /\ response.failed_stage = "gate2"
    /\ response.pipeline.confidence = AdditiveRule(LISTED_STAGES)


-----------------------------------------------------------------------------
(* The envelopes of a run *)

ENVELOPE_STATUSES == {"OK", "PARTIAL", "ERROR", "SKIPPED"}

WellFormedEnvelope(envelope) ==
    /\ "status" \in DOMAIN envelope
    /\ envelope.status \in ENVELOPE_STATUSES
    /\ "confidence" \in DOMAIN envelope
    /\ envelope.confidence \in 0 .. 100
    /\ envelope.status \in {"ERROR", "SKIPPED"} => envelope.confidence = 0
    /\ "one_liner" \in DOMAIN envelope
    /\ "data" \in DOMAIN envelope
    /\ "error" \in DOMAIN envelope <=> envelope.status = "ERROR"
    /\ envelope.status = "ERROR" =>
           /\ DOMAIN envelope.error = {"code", "message"}
           /\ envelope.data = EmptyDict

StatusesOf(outs) == {outs[key].status : key \in DOMAIN outs}

\* C19: every envelope a gate or a fetcher has returned in a run has a status
\* among OK, PARTIAL, ERROR and SKIPPED, an integer confidence in [0, 100]
\* that is 0 under ERROR and SKIPPED, a one_liner, an error of code and
\* message exactly under ERROR, and empty data under ERROR.
C19_EnvelopesWellFormed ==
    \A key \in DOMAIN outputs : WellFormedEnvelope(outputs[key])

\* a completed run with OK envelopes, the ERROR envelope of gate 1 and a
\* SKIPPED sizing
C19_Witness ==
    /\ Completed
    /\ {"OK", "ERROR", "SKIPPED"} \subseteq StatusesOf(outputs)
    /\ Failed("gate1")
    /\ outputs.gate5.status = "SKIPPED"
    /\ \A key \in DOMAIN outputs : WellFormedEnvelope(outputs[key])

\* a run with a PARTIAL and a SKIPPED envelope
C19_PartialRun ==
    /\ Finished
    /\ {"PARTIAL", "SKIPPED"} \subseteq StatusesOf(outputs)
    /\ \A key \in DOMAIN outputs : WellFormedEnvelope(outputs[key])


-----------------------------------------------------------------------------
(* The advisory language model of the valuation and of the sizing *)

\* what the advisory collaborator of the call can do in the call's environment
SupervisorOutcomes == LlmChoices(SupervisorReplies)

SizingAgentOutcomes == LlmChoices(SizingAgentReplies)

\* the call repeated with another advisory outcome
ValuationWith(llm) ==
    calculate_valuation(call.args.market_price, call.args.net_income,
                        call.args.free_cashflow, call.args.total_debt, call.args.cash,
                        call.args.shares_outstanding, llm)

SizingWith(llm) ==
    calculate_position_size(call.args.volatility, call.args.max_drawdown,
                            call.args.interest_rate, call.args.credit_stress,
                            call.args.correlation_index, call.args.upstream_reject, llm)

\* the valuation data as computed from the numeric inputs alone
ValuationNumbers ==
    valuation_core(call.args.market_price, call.args.net_income,
                   call.args.free_cashflow, call.args.total_debt, call.args.cash,
                   call.args.shares_outstanding)

\* the sizing factors as computed from the numeric inputs alone
SizingFactors ==
    [VOLATILITY |-> _volatility_factor(call.args.volatility),
     DRAWDOWN |-> _drawdown_factor(call.args.max_drawdown),
     CORRELATION |-> _correlation_factor(call.args.correlation_index),
     MACRO |-> _macro_factor(call.args.interest_rate, Upper(call.args.credit_stress[1]))]

SizingInputsRefused ==
    \/ call.args.upstream_reject
    \/ AbsentSizingArgs # {}
    \/ Upper(call.args.credit_stress[1]) \notin VALID_CREDIT_STRESS
    \/ interest_rate_not_decimal(call.args.interest_rate)

VALUATION_FIELDS ==
    {"pass", "margin_of_safety", "intrinsic_price", "valuation_band"}

SIZING_FIELDS == {"maximum_position_size", "binding_constraint", "factors"}

Only(d, keys) == [k \in keys |-> d[k]]

\* C20: whatever the advisory model answers, fails with, or when it is not
\* available, the valuation envelope differs at most in data.supervisor and
\* the sizing envelope at most in data.agent_overlay: status, confidence,
\* pass, margin_of_safety, intrinsic_price and valuation_band, and status,
\* maximum_position_size, binding_constraint and factors, are those computed
\* from the numeric inputs alone.
C20_AdvisoryDoesNotInterfere ==
    /\ IsValuationCall =>
          /\ \A llm \in SupervisorOutcomes :
                 LET other == ValuationWith(llm)
                 IN  /\ Except(other, {"data"}) = Except(call.result, {"data"})
                     /\ Except(other.data, {"supervisor"})
                            = Except(call.result.data, {"supervisor"})
          /\ call.result.status = "OK" =>
                 /\ Except(call.result.data, {"supervisor"}) = ValuationNumbers.data
                 /\ Only(call.result.data, VALUATION_FIELDS)
                        = Only(ValuationNumbers.data, VALUATION_FIELDS)
                 /\ call.result.confidence = ValuationNumbers.gate_confidence
                 /\ DOMAIN call.result.data.supervisor
                        = {"supervisor_commentary", "pathological_flags"}
          /\ call.result.status = "OK"
                 <=> (AbsentValuationArgs = {}
                      /\ RatGT(call.args.shares_outstanding, Zero))
    /\ IsSizingCall =>
          /\ \A llm \in SizingAgentOutcomes :
                 LET other == SizingWith(llm)
                 IN  /\ Except(other, {"data"}) = Except(call.result, {"data"})
                     /\ Except(other.data, {"agent_overlay"})
                            = Except(call.result.data, {"agent_overlay"})
          /\ call.result.status = "OK" =>
                 /\ call.result.data.factors = SizingFactors
                 /\ call.result.data.binding_constraint = _binding_constraint(SizingFactors)
                 /\ call.result.data.maximum_position_size
                        = round_position_size(ClampedProduct(SizingFactors),
                              [i \in 1 .. 4 |-> SizingFactors[FACTOR_PRECEDENCE[i]]])
                 /\ call.result.confidence = 75
                 /\ "agent_overlay" \in DOMAIN call.result.data =>
                        DOMAIN call.result.data.agent_overlay = {"narrative", "flag"}
          /\ call.result.status = IF SizingInputsRefused THEN "SKIPPED" ELSE "OK"
          /\ call.result.status = "SKIPPED" =>
                 /\ call.result.data.maximum_position_size = None
                 /\ "agent_overlay" \notin DOMAIN call.result.data

\* a reply that carries a pass, a band and a margin of its own, on a failed
\* valuation: the reply is under supervisor and the numbers are unchanged
C20_Witness ==
    /\ IsValuationCall
    /\ call.result.status = "OK"
    /\ call.llm.kind = "reply"
    /\ "pass" \in DOMAIN call.llm.payload
    /\ call.result.data.pass = FALSE
    /\ call.result.data.supervisor.supervisor_commentary = "Treat as a pass."
    /\ \E llm \in SupervisorOutcomes :
           ValuationWith(llm).data.supervisor # call.result.data.supervisor

\* a reply that carries a size of its own, on a sizing below 10
C20_SizingOverlay ==
    /\ SizingOK
    /\ call.llm.kind = "reply"
    /\ "maximum_position_size" \in DOMAIN call.llm.payload
    /\ call.result.data.agent_overlay.flag = "LARGE"
    /\ RatLT(call.result.data.maximum_position_size, Int2Rat(10))

\* the valuation without an API key
C20_SupervisorUnavailable ==
    /\ IsValuationCall
    /\ call.result.status = "OK"
    /\ ~GOOGLE_API_KEY
    /\ call.llm = NotCalled


-----------------------------------------------------------------------------
(* The order of the stages of a run *)

\* the stages are invoked in the forward order, none of them twice
InvokedForward ==
    \A i, j \in DOMAIN invoked :
        i < j => StageIndex(invoked[i]) < StageIndex(invoked[j])

\* a stage that was invoked has returned its envelope, the business-context
\* fetch excepted when it raised
InvokedReturned ==
    \A i \in DOMAIN invoked :
        \/ Returned(invoked[i])
        \/ invoked[i] = "sec_business_context" /\ BusinessContextRaised

\* the stages before a stage in the forward order that a run may leave out:
\* gate 1 and its fetch
OPTIONAL_STAGES == {"sec_business_context", "gate1"}

\* every stage before an invoked one was invoked before it
NoneSkippedBefore ==
    \A j \in DOMAIN invoked :
        \A stage \in Range(STAGE_ORDER) \ OPTIONAL_STAGES :
            StageIndex(stage) < StageIndex(invoked[j]) =>
                \E i \in 1 .. (j - 1) : invoked[i] = stage

\* C22: in a run the stages are invoked in the forward order identity, sec,
\* business-context fetch, gate 1, polygon, fred, gate 2, gate 3, gate 4,
\* gate 5, verdict, each at most once, each after every earlier stage has
\* returned, and a failed stage is not invoked again.
C22_StagesOnceInForwardOrder ==
    /\ InvokedForward
    /\ InvokedReturned
    /\ NoneSkippedBefore
    /\ \A i \in DOMAIN invoked :
           (Failed(invoked[i]) /\ invoked[i] \in HALTING_STAGES) => i = Len(invoked)

\* a completed run: ten or eleven stages, the verdict the last
C22_Witness ==
    /\ Completed
    /\ Len(invoked) >= 10
    /\ invoked[1] = "identity"
    /\ invoked[Len(invoked)] = "final"
    /\ InvokedForward

\* a run in which gate 1 failed and was not invoked again
C22_FailedGate1Once ==
    /\ Completed
    /\ Failed("gate1")
    /\ Cardinality({i \in DOMAIN invoked : invoked[i] = "gate1"}) = 1


-----------------------------------------------------------------------------
(* The sizing of a rejected run *)

RunVerdict == response.metadata.verdict

\* C25 as claimed: in every completed run whose verdict is REJECT the sizing
\* envelope is SKIPPED.
C25_RejectSkipsSizing ==
    (Completed /\ RunVerdict = "REJECT") => outputs.gate5.status = "SKIPPED"

\* C25, the part that holds: a completed run rejected by a failed valuation
\* has a SKIPPED sizing envelope; a rejected run whose sizing envelope is not
\* SKIPPED passed the valuation and was rejected by a HIGH impairment.
C25_ValuationRejectSkipsSizing ==
    (Completed /\ RunVerdict = "REJECT") =>
        /\ ~PassOf(outputs.gate2) => outputs.gate5.status = "SKIPPED"
        /\ outputs.gate5.status # "SKIPPED" =>
               /\ PassOf(outputs.gate2)
               /\ Upper(outputs.gate4.data.risk_level) = "HIGH"

\* a run rejected by a HIGH impairment alone, with a size computed by gate 5
C25_Witness ==
    /\ Completed
    /\ RunVerdict = "REJECT"
    /\ PassOf(outputs.gate2)
    /\ outputs.gate4.data.risk_level = "HIGH"
    /\ outputs.gate5.status = "OK"
    /\ ~IsNone(outputs.gate5.data.maximum_position_size)
    /\ ~Noted(SUPPRESSION_NOTE)


-----------------------------------------------------------------------------
(* The confidence of the pipeline against the confidence of the verdict *)

VERDICT_SCANNED_STAGES == {"gate2", "gate3", "gate4", "gate5"}

MissingAmong(stages) == \E stage \in stages : EnvelopeReportsMissing(stage)

\* C26: on a completed run pipeline.confidence is the verdict's confidence or
\* exactly 10 below it; it is 10 below exactly when an envelope listed in
\* gate_results other than those of gates 2 to 5 (identity, gate 1 or final)
\* reports missing inputs and none of gates 2 to 5 does.
C26_PipelineAtMostTenBelowVerdict ==
    Completed =>
        LET pipeline == response.pipeline.confidence
            final == outputs.final.confidence
        IN  /\ pipeline \in {final, final - 10}
            /\ pipeline = final - 10
                   <=> (MissingAmong(LISTED_STAGES \ VERDICT_SCANNED_STAGES)
                        /\ ~MissingAmong(VERDICT_SCANNED_STAGES))

\* gate 1 alone reports a missing input: 10 below
C26_Witness ==
    /\ Completed
    /\ EnvelopeReportsMissing("gate1")
    /\ ~MissingAmong(VERDICT_SCANNED_STAGES)
    /\ response.pipeline.confidence = outputs.final.confidence - 10

\* a gate among 2 to 5 reports missing inputs as well: both are penalised
C26_BothPenalised ==
    /\ Completed
    /\ EnvelopeReportsMissing("gate1")
    /\ MissingAmong(VERDICT_SCANNED_STAGES)
    /\ response.pipeline.confidence = outputs.final.confidence

(***************************************************************************)
(* assess_impairment_risk called on its own                               *)
(***************************************************************************)

ImpairmentRateInputs == {None, Rat(5, 100), Rat(101, 100)}

ImpairmentStressInputs == {None, Str("LOW"), Str("high"), Str("JUNK")}

CallImpairment ==
    /\ call = NoCall
    /\ pc = "start"
    /\ \E net_income \in {None, Int2Rat(100)}, cash \in CashInputs,
          total_debt \in TotalDebtInputs,
          interest_expense \in {None, Int2Rat(10)},
          interest_coverage \in {None, Int2Rat(12)},
          interest_rate \in ImpairmentRateInputs,
          credit_stress \in ImpairmentStressInputs,
          llm \in LlmChoices(Gate4Replies) :
          call' = [fn |-> "assess_impairment_risk",
                   args |-> [net_income |-> net_income,
                             cash |-> cash,
                             total_debt |-> total_debt,
                             interest_expense |-> interest_expense,
                             interest_coverage |-> interest_coverage,
                             interest_rate |-> interest_rate,
                             credit_stress |-> credit_stress],
                   llm |-> llm,
                   result |-> assess_impairment_risk(net_income, Int2Rat(120), cash,
                                  total_debt, Int2Rat(-50), interest_expense,
                                  interest_coverage, Int2Rat(3), interest_rate,
                                  credit_stress, Rat(-5, 10), None, llm)]
    /\ UNCHANGED <<config_vars, run_vars>>

InitImpairment == ConfigInit({DefaultConfig}) /\ call = NoCall /\ RunInit

NextImpairment == CallImpairment

SpecImpairment == InitImpairment /\ [][NextImpairment]_vars

IsImpairmentCall == call.fn = "assess_impairment_risk"

\* one of cash, total_debt, interest_rate, credit_stress is absent
CoreInputAbsent ==
    \E key \in {"cash", "total_debt", "interest_rate", "credit_stress"} :
        IsNone(call.args[key])

BothInterestAbsent ==
    IsNone(call.args.interest_expense) /\ IsNone(call.args.interest_coverage)

\* the classifier was not reachable, raised, or named a level outside the four
ClassifierUnusable ==
    \/ call.llm.kind # "reply"
    \/ Upper(Get(call.llm.payload, "risk_level", "")) \notin VALID_RISK_LEVELS

Undetermined(envelope) ==
    /\ envelope.status = "OK"
    /\ envelope.data.risk_level = "UNDETERMINED"
    /\ envelope.confidence = 0
    /\ envelope.data.confidence = 0

\* C23: assess_impairment_risk never returns an ERROR envelope; when cash,
\* total_debt, interest_rate or credit_stress is absent, when interest_expense
\* and interest_coverage are both absent, and when the classifier is
\* unavailable, fails or answers outside the allowed set, it returns an OK
\* envelope with risk_level UNDETERMINED and confidence 0; the risk_level it
\* returns is always one of LOW, MEDIUM, HIGH, UNDETERMINED.
C23_ImpairmentNeverErrors ==
    IsImpairmentCall =>
        /\ call.result.status = "OK"
        /\ call.result.data.risk_level \in {"LOW", "MEDIUM", "HIGH", "UNDETERMINED"}
        /\ (CoreInputAbsent \/ BothInterestAbsent \/ ClassifierUnusable)
               => Undetermined(call.result)

\* a call with every number present whose classifier answers outside the set
C23_Witness ==
    /\ IsImpairmentCall
    /\ ~CoreInputAbsent
    /\ ~BothInterestAbsent
    /\ call.llm.kind = "reply"
    /\ Get(call.llm.payload, "risk_level", "") = "SEVERE"
    /\ Undetermined(call.result)

\* a call without total_debt, refused before the classifier is consulted
C23_AbsentDebt ==
    /\ IsImpairmentCall
    /\ IsNone(call.args.total_debt)
    /\ ~IsNone(call.args.cash)
    /\ Undetermined(call.result)
    /\ call.result.diagnostics.missing_inputs = <<"total_debt">>

\* a classified call: an OK envelope with a level of the set and its confidence
C23_Classified ==
    /\ IsImpairmentCall
    /\ call.result.data.risk_level = "HIGH"
    /\ call.result.confidence = 85

(***************************************************************************)
(* The stages a run can halt at                                           *)
(***************************************************************************)

\* the gates whose failures are reported inside an OK or SKIPPED envelope
NON_FAILING_GATES == {"gate3", "gate4", "gate5"}

\* C27: a run halts only at identity, sec, polygon, fred, gate2 or final;
\* gates 3, 4 and 5 never return an ERROR envelope (their refusals are OK with
\* NO_RELEVANT_DATA_FOUND, OK with UNDETERMINED, and SKIPPED), so failed_stage
\* is never gate3, gate4 or gate5.
C27_HaltsOnlyAtFailingStages ==
    /\ \A stage \in NON_FAILING_GATES :
           Returned(stage) => outputs[stage].status \in {"OK", "SKIPPED"}
    /\ Returned("gate3") => outputs.gate3.status = "OK"
    /\ Returned("gate4") => outputs.gate4.status = "OK"
    /\ Halted =>
           response.failed_stage \in
               {"identity", "sec", "polygon", "fred", "gate2", "final"}

\* a completed run in which all three gates refused
C27_Witness ==
    /\ Completed
    /\ outputs.gate3.status = "OK"
    /\ outputs.gate3.data.classification = "NO_RELEVANT_DATA_FOUND"
    /\ outputs.gate4.status = "OK"
    /\ outputs.gate4.data.risk_level = "UNDETERMINED"
    /\ outputs.gate4.confidence = 0
    /\ outputs.gate5.status = "SKIPPED"

\* probes: the stages at which the model's runs do halt
C27_HaltAtIdentity == Halted /\ response.failed_stage = "identity"
C27_HaltAtSec == Halted /\ response.failed_stage = "sec"
C27_HaltAtPolygon == Halted /\ response.failed_stage = "polygon"
C27_HaltAtFred == Halted /\ response.failed_stage = "fred"
C27_HaltAtGate2 == Halted /\ response.failed_stage = "gate2"

(***************************************************************************)
(* The policy of valuation_policy for net-cash and indebted balance sheets *)
(***************************************************************************)

IsPolicyCall == call.fn = "valuation_policy"

NetCashInputs == {net_debt \in NetDebtInputs : RatLE(net_debt, Zero)}

IndebtedInputs == {net_debt \in NetDebtInputs : RatGT(net_debt, Zero)}

MultipleOf(policy) == policy[1]

RequiredMarginOf(policy) == policy[2]

\* the policy of the call's balance sheet against the policy of every balance
\* sheet of the other kind, under the configuration of the run
NetCashNeverStricter ==
    \A net_cash \in NetCashInputs, indebted \in IndebtedInputs :
        /\ RatLE(RequiredMarginOf(valuation_policy(net_cash)),
                 RequiredMarginOf(valuation_policy(indebted)))
        /\ RatGE(MultipleOf(valuation_policy(net_cash)),
                 MultipleOf(valuation_policy(indebted)))

\* C28: for every configured base required margin and base multiple, the
\* required margin valuation_policy applies to net_debt <= 0 is never higher
\* than the one it applies to net_debt > 0, and the multiple is never lower.
C28_NetCashNeverStricter ==
    IsPolicyCall => NetCashNeverStricter

\* C28, where the configured margin is at or above the 0.20 floor: the net-cash
\* margin is max(0.20, base - 0.05), never above the base, and the multiple is
\* the base plus 2; below the floor the multiple is still never lower.
C28_NetCashNeverStricterAboveFloor ==
    IsPolicyCall =>
        /\ RatGE(REQUIRED_MARGIN, Rat(20, 100)) => NetCashNeverStricter
        /\ \A net_cash \in NetCashInputs, indebted \in IndebtedInputs :
               RatGE(MultipleOf(valuation_policy(net_cash)),
                     MultipleOf(valuation_policy(indebted)))
        /\ call.result = valuation_policy(call.args.net_debt)

\* a net-cash call under a base margin of 0.22: the floor 0.20 applies
C28_Witness ==
    /\ IsPolicyCall
    /\ REQUIRED_MARGIN = Rat(22, 100)
    /\ call.args.net_debt \in NetCashInputs
    /\ RequiredMarginOf(call.result) = Rat(20, 100)
    /\ MultipleOf(call.result) = Int2Rat(12)

\* a net-cash call under a base margin of 0.10: held to 0.20, the indebted to 0.10
C28_FloorRaisesMargin ==
    /\ IsPolicyCall
    /\ REQUIRED_MARGIN = Rat(10, 100)
    /\ call.args.net_debt \in NetCashInputs
    /\ RequiredMarginOf(call.result) = Rat(20, 100)
    /\ \A indebted \in IndebtedInputs :
           RequiredMarginOf(valuation_policy(indebted)) = Rat(10, 100)

(***************************************************************************)
(* The confidence of the verdict of a completed run                       *)
(***************************************************************************)

RunMargin == Get(outputs.gate2.data, "margin_of_safety", None)

RunMarginBelowMinusOne == ~IsNone(RunMargin) /\ RatLT(RunMargin, Int2Rat(-1))

\* C29: on every completed run the confidence of the final verdict lies in
\* [30, 80]; a margin of safety below -1.0 (the +20 adjustment) occurs only
\* with pass = false and verdict REJECT; the confidence of an INVEST verdict
\* is never above 60.
C29_VerdictConfidenceRange ==
    Completed =>
        /\ outputs.final.confidence \in 30 .. 80
        /\ outputs.final.data.confidence = outputs.final.confidence
        /\ RunMarginBelowMinusOne => (~PassOf(outputs.gate2) /\ RunVerdict = "REJECT")
        /\ RunVerdict = "INVEST" => outputs.final.confidence <= 60
        /\ outputs.final.confidence > 60 => RunMarginBelowMinusOne

\* a rejected run with a margin below -1.0 and a LOW impairment risk: 80
C29_Witness ==
    /\ Completed
    /\ RunMarginBelowMinusOne
    /\ RunVerdict = "REJECT"
    /\ outputs.final.confidence = 80

\* an INVEST run at the top of its range
C29_InvestAtSixty ==
    /\ Completed
    /\ RunVerdict = "INVEST"
    /\ outputs.final.confidence = 60

\* a completed run at the bottom of the range
C29_AtThirty == Completed /\ outputs.final.confidence = 30

(***************************************************************************)
(* The confidence of a halted run                                         *)
(***************************************************************************)

FETCHER_STAGES == {"sec", "sec_business_context", "polygon", "fred"}

\* the envelopes of the listed stages that have returned
ListedEnvelopes == {outputs[stage] : stage \in {s \in LISTED_STAGES : Returned(s)}}

\* C30: when a run halts, pipeline.confidence of the ERROR response is the
\* additive rule over the gate envelopes collected so far, which are those of
\* identity, gate 1 and gates 2 to 6 and never those of the sec, polygon and
\* fred fetchers; it is at least 30 and never 0, and 50 when identity
\* resolution fails with not-found.
C30_HaltedConfidence ==
    Halted =>
        /\ gate_results # <<>>
        /\ Range(gate_results) = ListedEnvelopes
        /\ \A stage \in FETCHER_STAGES :
               Returned(stage) => outputs[stage] \notin Range(gate_results)
        /\ response.pipeline.confidence = compute_pipeline_confidence(gate_results)
        /\ response.pipeline.confidence = AdditiveRule(LISTED_STAGES)
        /\ response.pipeline.confidence >= 30
        /\ (response.failed_stage = "identity"
               /\ outputs.identity.error.code = "IDENTITY_NOT_FOUND")
               => response.pipeline.confidence = 50

\* a run halted at the sec fetcher, whose envelope lists missing inputs that
\* the pipeline confidence does not count
C30_Witness ==
    /\ Halted
    /\ response.failed_stage = "sec"
    /\ EnvelopeReportsMissing("sec")
    /\ response.pipeline.confidence = 50

\* identity not found: 50
C30_IdentityNotFound ==
    /\ Halted
    /\ response.failed_stage = "identity"
    /\ outputs.identity.error.code = "IDENTITY_NOT_FOUND"
    /\ response.pipeline.confidence = 50

\* identity refused for an empty input, which it lists as missing: 40
C30_IdentityInvalidInput ==
    /\ Halted
    /\ response.failed_stage = "identity"
    /\ outputs.identity.error.code = "IDENTITY_INVALID_INPUT"
    /\ response.pipeline.confidence = 40

(***************************************************************************)
(* Missing inputs of the valuation and of the sizing                      *)
(***************************************************************************)

\* the SEC facts carried no debt concept for the period
DebtNotReported ==
    /\ Returned("sec")
    /\ outputs.sec.status = "OK"
    /\ IsNone(outputs.sec.data.concepts_used.long_term_debt)
    /\ IsNone(outputs.sec.data.concepts_used.current_debt)

\* the correlation with the benchmark could not be computed
CorrelationNotComputed ==
    /\ Returned("polygon")
    /\ outputs.polygon.status = "OK"
    /\ outputs.polygon.data.correlation_fallback_used

\* the absence of the input is surfaced by the fetcher or by the gate
Surfaced(input, fetcher, gate) ==
    \/ outputs[gate].status \in {"ERROR", "SKIPPED"}
    \/ \E stage \in {fetcher, gate} :
           input \in Range(outputs[stage].diagnostics.missing_inputs)

\* C24: in no run is a guessed or default number substituted for a missing
\* required input of valuation or sizing: when the value cannot be obtained
\* from its source the run surfaces the absence as an ERROR or SKIPPED
\* envelope or as a missing_inputs entry, and valuation and sizing are never
\* computed from a substituted value.
C24_NoSubstitutedInput ==
    /\ (Returned("gate2") /\ DebtNotReported) => Surfaced("total_debt", "sec", "gate2")
    /\ (Returned("gate5") /\ CorrelationNotComputed)
           => Surfaced("correlation_index", "polygon", "gate5")

\* C24 for the inputs the fetchers require: a valuation is computed only from a
\* reported net income, cash, share count and market price, a size only from a
\* computed volatility and drawdown and a published rate and stress band; a
\* fetcher that lacks one of its required metrics returns an ERROR envelope
\* that lists them and the run halts before the valuation.
C24_RequiredInputsNeverDefaulted ==
    /\ (Returned("gate2") /\ outputs.gate2.status = "OK") =>
           /\ \A key \in {"net_income", "cash", "shares_outstanding"} :
                  ~IsNone(outputs.sec.data[key])
           /\ ~IsNone(outputs.polygon.data.market_price)
    /\ (Returned("gate5") /\ outputs.gate5.status = "OK") =>
           /\ \A key \in {"volatility", "max_drawdown"} :
                  ~IsNone(outputs.polygon.data[key])
           /\ ~IsNone(outputs.fred.data.interest_rate)
           /\ outputs.fred.data.credit_stress \in VALID_CREDIT_STRESS
    /\ \A fetcher \in {"sec", "polygon", "fred"} :
           Failed(fetcher) => (Finished => Halted) /\ ~Returned("gate2")

\* a run halted at the SEC fetcher, which lists the metric it lacks
C24_Witness ==
    /\ Halted
    /\ response.failed_stage = "sec"
    /\ outputs.sec.error.code = "SEC_MISSING_REQUIRED_METRICS"
    /\ "operating_cashflow" \in Range(outputs.sec.diagnostics.missing_inputs)
    /\ ~Returned("gate2")

\* a completed run valued with total_debt 0 where no debt concept was reported
C24_DebtDefaultedToZero ==
    /\ Completed
    /\ DebtNotReported
    /\ outputs.sec.data.total_debt = Zero
    /\ outputs.sec.diagnostics.missing_inputs = <<>>
    /\ outputs.gate2.status = "OK"
    /\ outputs.gate2.diagnostics.missing_inputs = <<>>
    /\ outputs.gate2.data.valuation_anchor.multiple_used = Int2Rat(12)

\* a completed run sized with the correlation 0.65 where none was computed
C24_CorrelationDefaulted ==
    /\ Completed
    /\ CorrelationNotComputed
    /\ outputs.polygon.data.correlation_index = Rat(65, 100)
    /\ outputs.polygon.diagnostics.missing_inputs = <<>>
    /\ outputs.gate5.status = "OK"
    /\ outputs.gate5.diagnostics.missing_inputs = <<>>
    /\ outputs.gate5.data.factors.CORRELATION = Rat(70, 100)

(***************************************************************************)
(* Concurrent runs of run_pipeline                                        *)
(*                                                                         *)
(* A run is the record of the locals of one call of run_pipeline: where it *)
(* stands, outputs, gate_results, pipeline_notes, gate1_data and, once it  *)
(* has returned, the response.  Its script is its input and the response   *)
(* each collaborator gives to it.  The module constants REQUIRED_MARGIN    *)
(* and VALUATION_MULTIPLE and the environment are shared by all runs.      *)
(***************************************************************************)

RUNS == {"A", "B", "C"}

\* orchestrator.py:66-68
FreshRun ==
    [pc |-> "start", outputs |-> EmptyDict, gate_results |-> <<>>,
     pipeline_notes |-> <<>>, gate1_data |-> None, response |-> None]

\* what the advisory model of a gate answers to this run; a gate calls it only
\* when GOOGLE_API_KEY is set (gate2_valuation.py:94-95 and the like)
Answer(reply) == IF GOOGLE_API_KEY THEN reply ELSE NotCalled

\* variant: outputs is one module-level dict that every run writes to
LocalsOf_module_level_outputs(runs, r) ==
    [runs[r] EXCEPT !.outputs = runs[r].outputs @@ runs["A"].outputs
                                 @@ runs["B"].outputs @@ runs["C"].outputs]

\* the locals a call works on: those it created itself
LocalsOf(runs, r) == runs[r]

RecordIn(run, key, result, listed, next) ==
    LET outs == (key :> result) @@ run.outputs
        results == IF listed THEN Append(run.gate_results, result)
                   ELSE run.gate_results
    IN  [run EXCEPT !.outputs = outs,
                    !.gate_results = results,
                    !.response = IF _is_fatal(result)
                                 THEN _pipeline_error(key, result, outs, results)
                                 ELSE run.response,
                    !.pc = IF _is_fatal(result) THEN "done" ELSE next]

\* one stage of run_pipeline on the locals of a run, with the responses of its
\* script
run_pipeline_stage(run, script) ==
    LET outs == run.outputs
    IN
    CASE run.pc = "start" ->
           RecordIn(run, "identity",
                    resolve_identity(script.company_input, script.sec_tickers),
                    TRUE, "sec")
      [] run.pc = "sec" ->
           RecordIn(run, "sec",
                    fetch_sec_data(outs.identity.data.cik, script.companyfacts),
                    FALSE, "business_context")
      [] run.pc = "business_context" ->
           LET biz_ctx_result ==
                   fetch_sec_business_context(outs.identity.data.cik, script.submissions)
               biz == biz_ctx_result.data
               gate1_result ==
                   analyze_business_context(biz.company_name, biz.sic_description,
                                            biz.business_description, biz.risk_factors,
                                            biz.entity_type, biz.sic,
                                            Answer(script.gate1_llm))
           IN  IF "raised" \in DOMAIN biz_ctx_result
               THEN [run EXCEPT !.pipeline_notes =
                                    Append(@, "Gate 1 failed (non-blocking)"),
                                !.pc = "polygon"]
               ELSE IF biz_ctx_result.status \in {"OK", "PARTIAL"}
               THEN [run EXCEPT !.outputs = ("gate1" :> gate1_result) @@
                                    ("sec_business_context" :> biz_ctx_result) @@ outs,
                                !.gate_results = Append(@, gate1_result),
                                !.gate1_data =
                                    IF gate1_result.status \in {"OK", "PARTIAL"}
                                    THEN gate1_result.data ELSE @,
                                !.pc = "polygon"]
               ELSE [run EXCEPT !.outputs =
                                    ("sec_business_context" :> biz_ctx_result) @@ outs,
                                !.pipeline_notes =
                                    Append(@, "Gate 1 skipped - SEC business context unavailable"),
                                !.pc = "polygon"]
      [] run.pc = "polygon" ->
           RecordIn(run, "polygon",
                    fetch_polygon_data(outs.identity.data.ticker, script.market),
                    FALSE, "fred")
      [] run.pc = "fred" ->
           RecordIn(run, "fred", fetch_fred_data(script.series), FALSE, "gate2")
      [] run.pc = "gate2" ->
           RecordIn(run, "gate2",
                    calculate_valuation(outs.polygon.data.market_price,
                                        outs.sec.data.net_income,
                                        outs.sec.data.free_cashflow,
                                        outs.sec.data.total_debt,
                                        outs.sec.data.cash,
                                        outs.sec.data.shares_outstanding,
                                        Answer(script.supervisor_llm)),
                    TRUE, "gate3")
      [] run.pc = "gate3" ->
           LET polygon == outs.polygon.data
           IN  RecordIn(run, "gate3",
                        analyze_market_structure(
                            polygon.last_price, polygon.last_volume, polygon.avg_volume,
                            polygon.volume_spike, Str(polygon.price_direction),
                            Str(polygon.flow_signal), polygon.yes_price, polygon.no_price,
                            Str(Get(polygon, "macro_signal", outs.fred.data.macro_signal)),
                            Answer(script.gate3_llm)),
                        TRUE, "gate4")
      [] run.pc = "gate4" ->
           LET sec == outs.sec.data
               fred == outs.fred.data
               gate4_business_context ==
                   IF run.gate1_data # EmptyDict
                   THEN Str(Get(run.gate1_data, "business_summary", "")) ELSE None
           IN  RecordIn(run, "gate4",
                        assess_impairment_risk(
                            sec.net_income, sec.free_cashflow, sec.cash, sec.total_debt,
                            Get(outs.gate2.data, "net_debt", None),
                            sec.interest_expense, sec.interest_coverage,
                            sec.shares_outstanding, fred.interest_rate,
                            Str(fred.credit_stress), fred.credit_stress_index,
                            gate4_business_context, Answer(script.gate4_llm)),
                        TRUE, "gate5")
      [] run.pc = "gate5" ->
           LET upstream_reject == _should_suppress_sizing(outs.gate2, outs.gate4)
               polygon == outs.polygon.data
               fred == outs.fred.data
               noted == [run EXCEPT !.pipeline_notes =
                             IF upstream_reject
                             THEN Append(@, "Gate 5 sizing suppressed - upstream REJECT detected")
                             ELSE @]
           IN  RecordIn(noted, "gate5",
                        calculate_position_size(polygon.volatility, polygon.max_drawdown,
                                                fred.interest_rate, Str(fred.credit_stress),
                                                polygon.correlation_index,
                                                upstream_reject, Answer(script.sizing_llm)),
                        TRUE, "final")
      [] run.pc = "final" ->
           LET final_result == aggregate_verdict(outs.gate2, outs.gate3, outs.gate4,
                                                 outs.gate5, run.gate1_data)
               final_outs == ("final" :> final_result) @@ outs
               results == Append(run.gate_results, final_result)
           IN  [run EXCEPT !.outputs = final_outs,
                           !.gate_results = results,
                           !.response =
                               IF _is_fatal(final_result)
                               THEN _pipeline_error("final", final_result, final_outs, results)
                               ELSE pipeline_ok(final_outs, results, run.pipeline_notes),
                           !.pc = "done"]
      [] OTHER -> run

\* the call run to its return, on its own
RECURSIVE run_pipeline(_, _)
run_pipeline(run, script) ==
    IF run.pc = "done" THEN run
    ELSE run_pipeline(run_pipeline_stage(run, script), script)

\* the responses the collaborators give to a run
ScriptFacts ==
    {cf \in CompanyFactsFeeds : cf.kind = "facts" /\ cf.operating_cashflow # Int2Rat(80)}

ScriptMarkets == {m \in MarketFeeds : m.kind = "bars" /\ ~IsNone(m.prev_close)}

ScriptGate4Replies ==
    {r \in Gate4Replies :
        r.kind = "reply" /\ Get(r.payload, "risk_level", "") \in {"low", "HIGH"}}

ScriptOf(companyfacts, market, gate4_llm) ==
    [company_input |-> "AAPL",
     sec_tickers |-> CHOOSE t \in SecTickerFeeds :
                         /\ t.kind = "companies"
                         /\ t.exact_matches = <<IdentityRecord(CIK_PLAIN, "EXACT")>>,
     companyfacts |-> companyfacts,
     submissions |-> CHOOSE s \in SubmissionsFeeds :
                         s.kind = "submissions" /\ ~IsNone(s.business_description),
     gate1_llm |-> CHOOSE r \in Gate1Replies :
                      r.kind = "reply" /\ r.payload.business_complexity = "low",
     market |-> market,
     series |-> CHOOSE s \in SeriesFeeds :
                    s.kind = "observations" /\ s.dff = Int2Rat(3),
     supervisor_llm |-> CHOOSE r \in SupervisorReplies :
                           r.kind = "reply" /\ "pass" \in DOMAIN r.payload,
     gate3_llm |-> CHOOSE r \in Gate3Replies :
                      r.kind = "reply" /\ r.payload.classification = "NEUTRAL",
     gate4_llm |-> gate4_llm,
     sizing_llm |-> CHOOSE r \in SizingAgentReplies :
                       r.kind = "reply" /\ "maximum_position_size" \in DOMAIN r.payload]

Scripts ==
    {ScriptOf(companyfacts, market, gate4_llm) :
        companyfacts \in ScriptFacts, market \in ScriptMarkets,
        gate4_llm \in ScriptGate4Replies}

\* the scripts of the third run: an empty input, and a company without fundamentals
OtherScripts ==
    { [ScriptOf(CHOOSE cf \in ScriptFacts : TRUE, CHOOSE m \in ScriptMarkets : TRUE,
                CHOOSE r \in ScriptGate4Replies : TRUE)
          EXCEPT !.company_input = ""],
      ScriptOf(CHOOSE cf \in ScriptFacts : cf.long_term_debt = Int2Rat(900),
               CHOOSE m \in ScriptMarkets : m.prev_close = Int2Rat(700),
               CHOOSE r \in ScriptGate4Replies : r.payload.risk_level = "HIGH") }

IsConcurrent == call.fn = "run_pipeline"

\* one stage of one of the runs; the order of the runs' stages is free
StepRun(r) ==
    /\ IsConcurrent
    /\ call.runs[r].pc # "done"
    /\ call' = [call EXCEPT !.runs[r] =
                    run_pipeline_stage(LocalsOf(call.runs, r), call.scripts[r])]
    /\ UNCHANGED <<config_vars, run_vars>>

\* runs A and B are given the same input and the same responses
InitConcurrent ==
    /\ ConfigInit({DefaultConfig})
    /\ RunInit
    /\ \E script \in Scripts, other \in OtherScripts :
           call = [fn |-> "run_pipeline",
                   scripts |-> [r \in RUNS |-> IF r = "C" THEN other ELSE script],
                   runs |-> [r \in RUNS |-> FreshRun]]

NextConcurrent == \E r \in RUNS : StepRun(r)

SpecConcurrent == InitConcurrent /\ [][NextConcurrent]_vars

RunDone(r) == call.runs[r].pc = "done"

C21_AllReturned ==
    /\ IsConcurrent
    /\ \A r \in RUNS : RunDone(r)
    /\ call.runs["A"].response = call.runs["B"].response
    /\ call.runs["C"].response # call.runs["A"].response
    /\ call.runs["C"].response.status = "ERROR"

\* the locals of the run of the pipeline specification, as a run record
LocalsOfRun ==
    [pc |-> pc, outputs |-> outputs, gate_results |-> gate_results,
     pipeline_notes |-> pipeline_notes, gate1_data |-> gate1_data,
     response |-> response]

\* the responses a stage can be given, by the stage the run stands at
StageScripts ==
    CASE pc = "start" ->
           {[company_input |-> company_input, sec_tickers |-> sec_tickers] :
               company_input \in CompanyInputs, sec_tickers \in SecTickerFeeds}
      [] pc = "sec" -> {[companyfacts |-> f] : f \in CompanyFactsFeeds}
      [] pc = "business_context" ->
           {[submissions |-> s, gate1_llm |-> r] :
               s \in SubmissionsFeeds, r \in Gate1Replies}
      [] pc = "polygon" -> {[market |-> m] : m \in MarketFeeds}
      [] pc = "fred" -> {[series |-> s] : s \in SeriesFeeds}
      [] pc = "gate2" -> {[supervisor_llm |-> r] : r \in SupervisorReplies}
      [] pc = "gate3" -> {[gate3_llm |-> r] : r \in Gate3Replies}
      [] pc = "gate4" -> {[gate4_llm |-> r] : r \in Gate4Replies}
      [] pc = "gate5" -> {[sizing_llm |-> r] : r \in SizingAgentReplies}
      [] OTHER -> {EmptyDict}

\* every step of the pipeline specification is run_pipeline_stage on the run's
\* locals under one of the responses the stage can be given
StagesAgreeWithRun ==
    [][\E script \in StageScripts :
           LocalsOfRun' = run_pipeline_stage(LocalsOfRun, script)]_vars

=============================================================================
